---- MODULE Spec2Model ----
(***************************************************************************)
(* A model of the data pipeline of Data2text-Bi-Aspect:                    *)
(*   - onmt/io/TextDataset.py: ShardedTextCorpusIterator (standalone and   *)
(*     lockstep reading), TextDataset assembly (zip join, dynamic          *)
(*     dictionary, alignment, pointer table, filtering) and                *)
(*     collapse_copy_scores.                                               *)
(*                                                                         *)
(* A corpus file is a sequence of lines; a line is a sequence of tokens;   *)
(* a token is the sequence of its delimiter-separated segments (the word   *)
(* first, then its features), i.e. what token.split(u"|") returns.  File   *)
(* positions are byte offsets, as tell()/seek() use them.                  *)
(*                                                                         *)
(* Generators follow the semantics the code was written for (Python < 3.7):*)
(* "raise StopIteration" inside a generator ends the generator.            *)
(***************************************************************************)
EXTENDS Integers, Sequences, FiniteSets, TLC

VARIABLES
    corpus,   \* side -> that side's corpus file (its lines, their end offsets)
    rd,       \* side -> the state of that side's ShardedTextCorpusIterator
    sides,    \* the readers in the order zip() pulls them (the peer first)
    phase,    \* "idle" | "pass" | "done" | "error": the driver's position
    err,      \* "" or the exception that ended the run
    out,      \* side -> every record the side's generators have yielded
    shard,    \* the tuples zip() has produced in the current pass
    cfg,      \* the arguments of TextDataset.__init__
    ds,       \* the TextDataset under construction / constructed
    dyn,      \* one call of a static method of TextDataset: its input and its result
    cc,       \* one call of collapse_copy_scores: its arguments and its result
    cg,       \* one call into CopyGenerator.py: its arguments and its result
    fld,      \* one call of a field's method: the field, the arguments, the result
    it        \* train.py: a DatasetLazyIter, or the globals of batch_size_fn

vars == <<corpus, rd, sides, phase, err, out, shard, cfg, ds, dyn, cc, cg, fld, it>>

-----------------------------------------------------------------------------
(* Bounds of the model *)

\* longest corpus of the long (patterned) corpora
MaxLines == 66
\* longest corpus of the exhaustively enumerated short corpora (one reader)
MaxSmall == 3
\* longest corpus of the exhaustively enumerated short corpora (two readers)
MaxPair == 2
\* largest shard_size tried
MaxShard == 5

(* Program constants *)

\* TextDataset.py:562  "self.line_index % 64 == 0"
CheckPeriod == 64

-----------------------------------------------------------------------------
(* The parts of the state a specification does not use *)

NoCfg == [unused |-> TRUE]
NoDataset == [unused |-> TRUE]
NoDyn == [unused |-> TRUE]
NoCollapse == [unused |-> TRUE]
NoCall == [unused |-> TRUE]

-----------------------------------------------------------------------------
(* Generic helpers *)

RECURSIVE SumLen(_)
\* total number of characters of a sequence of strings
SumLen(s) == IF s = <<>> THEN 0 ELSE Len(Head(s)) + SumLen(Tail(s))

RECURSIVE SeqsUpTo(_, _)
\* all sequences over S of length 0..n
SeqsUpTo(S, n) ==
    IF n = 0 THEN {<<>>}
    ELSE LET shorter == SeqsUpTo(S, n - 1)
         IN  shorter \cup {Append(s, x) : s \in shorter, x \in S}

-----------------------------------------------------------------------------
(* The corpus file *)

\* bytes of a token: its segments joined by the 3-byte delimiter U+FFE8
TokenBytes(tok) == SumLen(tok) + 3 * (Len(tok) - 1)

RECURSIVE LineTokensBytes(_)
LineTokensBytes(line) ==
    IF line = <<>> THEN 0
    ELSE TokenBytes(Head(line)) + LineTokensBytes(Tail(line))

\* bytes of a line of the file: tokens separated by one blank, then "\n"
ByteLen(line) ==
    LineTokensBytes(line) + (IF Len(line) > 0 THEN Len(line) - 1 ELSE 0) + 1

RECURSIVE EndsFrom(_, _, _)
\* the byte offset at which each line of the file ends
EndsFrom(lines, k, acc) ==
    IF k > Len(lines) THEN <<>>
    ELSE <<acc + ByteLen(lines[k])>> \o EndsFrom(lines, k + 1, acc + ByteLen(lines[k]))

\* a file: its lines and where each ends
File(lines) == [lines |-> lines, ends |-> EndsFrom(lines, 1, 0)]

\* the number of whole lines that precede byte offset p
LineAt(c, p) == Cardinality({k \in 1..Len(c.ends) : c.ends[k] <= p})

\* corpus.readline() at offset p: "" at the end of the file
AtEof(c, p) == LineAt(c, p) = Len(c.lines)
ReadLine(c, p) == c.lines[LineAt(c, p) + 1]

-----------------------------------------------------------------------------
(* TextDataset.extract_text_features *)

\* split_tokens = [token for token in split_tokens if token[0]]
KeepAllTokens(toks) == toks

SelectNonEmpty(toks) == SelectSeq(toks, LAMBDA t : t[1] # "")

\* the characters of a word; the words of the model are one character long,
\* "N/A" and <...> words are kept whole
Chars(w) == <<w>>

\* The returned tuple: 3 components for an empty token list, 4 otherwise.
\* ok = FALSE is an exception: the failed assertion, or the IndexError of
\* split_tokens[0] when every token has an empty word.
ExtractTextFeatures(tokens) ==
    IF tokens = <<>>
    THEN [ok |-> TRUE, raised |-> "", arity |-> 3, words |-> <<>>, feats |-> <<>>,
          n_feats |-> -1, chars |-> <<>>]
    ELSE LET split == SelectNonEmpty(tokens)
         IN  IF split = <<>>
             THEN [ok |-> FALSE, raised |-> "IndexError", arity |-> 0,
                   words |-> <<>>, feats |-> <<>>, n_feats |-> -1, chars |-> <<>>]
             ELSE IF \E i \in 1..Len(split) : Len(split[i]) # Len(split[1])
             THEN [ok |-> FALSE, raised |-> "AssertionError: features", arity |-> 0,
                   words |-> <<>>, feats |-> <<>>, n_feats |-> -1, chars |-> <<>>]
             ELSE LET size == Len(split[1])
                      words == [i \in 1..Len(split) |-> split[i][1]]
                  IN  [ok |-> TRUE, raised |-> "", arity |-> 4,
                       words |-> words,
                       feats |-> [j \in 1..(size - 1) |->
                                    [i \in 1..Len(split) |-> split[i][j + 1]]],
                       n_feats |-> size - 1,
                       chars |-> [i \in 1..Len(words) |-> Chars(words[i])]]

-----------------------------------------------------------------------------
(* ShardedTextCorpusIterator *)

\* __init__
NewReader(shard_size, assoc) ==
    [kind |-> "sharded",
     shard_size |-> shard_size, assoc |-> assoc, last_pos |-> 0,
     line_index |-> -1, eof |-> FALSE,
     pos |-> 0,                  \* the file object's position
     gen |-> "none",             \* the generator of the current pass
     iteration_index |-> -1]

\* the words int() accepts ('tgt1_planning': [int(word) for word in words])
IntWords == {"1", "2", "3"}

\* _example_dict_iter: "words, feats, n_feats, chars = extract_text_features(line)"
\* needs four components
ExampleOf(side, x, index) ==
    IF ~x.ok THEN [ok |-> FALSE, why |-> x.raised]
    ELSE IF x.arity # 4 THEN [ok |-> FALSE, why |-> "ValueError: unpack"]
    ELSE IF side = "tgt1" /\ \E i \in 1..Len(x.words) : x.words[i] \notin IntWords
    THEN [ok |-> FALSE, why |-> "ValueError: int"]
    ELSE [ok |-> TRUE, why |-> "", side |-> side, words |-> x.words,
          indices |-> index, chars |-> x.chars]

ExampleDict(side, line, index) == ExampleOf(side, ExtractTextFeatures(line), index)

\* readline() succeeded: count the line and yield its record
\* the index of the line the generator yields next: the global line number
ExampleIndexOfLine(r) == r.line_index + 1

\* the index of the line the generator yields next: iteration_index, counted
\* from 0 in every generator
ExampleIndex(r) == r.iteration_index + 1

Yielded(r2, ex) ==
    IF ex.ok THEN [rd |-> r2, res |-> "yield", rec |-> ex]
    ELSE [rd |-> [r2 EXCEPT !.gen = "done"], res |-> ex.why, rec |-> ex]

YieldRead(side, r, line) ==
    Yielded([r EXCEPT !.pos = r.pos + ByteLen(line),
                      !.line_index = r.line_index + 1,
                      !.iteration_index = r.iteration_index + 1,
                      !.gen = "susp"],
            ExampleDict(side, line, ExampleIndex(r)))

YieldLine(side, r, c) == YieldRead(side, r, ReadLine(c, r.pos))

\* the shard is full once the file position has advanced by shard_size bytes
ShardFull(r, cur_pos) == cur_pos >= r.last_pos + r.shard_size

\* StandaloneNext with the shard boundary not recorded: the next pass seeks
\* back to the previous boundary
StandaloneNextNoSave(side, r0, c) ==
    LET r == IF r0.gen = "new"
             THEN [r0 EXCEPT !.iteration_index = -1, !.pos = r0.last_pos]
             ELSE r0
    IN  IF r.shard_size # 0 /\ r.line_index % CheckPeriod = 0 /\ ShardFull(r, r.pos)
        THEN [rd |-> [r EXCEPT !.gen = "done"],
              res |-> "stop", rec |-> [ok |-> FALSE, why |-> ""]]
        ELSE IF AtEof(c, r.pos)
        THEN [rd |-> [r EXCEPT !.eof = TRUE, !.gen = "done"],
              res |-> "stop", rec |-> [ok |-> FALSE, why |-> ""]]
        ELSE YieldLine(side, r, c)

\* one next() on the generator of a reader without a peer
StandaloneNext(side, r0, c) ==
    LET r == IF r0.gen = "new"
             THEN [r0 EXCEPT !.iteration_index = -1, !.pos = r0.last_pos]
             ELSE r0
    IN  IF r.shard_size # 0 /\ r.line_index % CheckPeriod = 0 /\ ShardFull(r, r.pos)
        THEN [rd |-> [r EXCEPT !.last_pos = r.pos, !.gen = "done"],
              res |-> "stop", rec |-> [ok |-> FALSE, why |-> ""]]
        ELSE IF AtEof(c, r.pos)
        THEN [rd |-> [r EXCEPT !.eof = TRUE, !.gen = "done"],
              res |-> "stop", rec |-> [ok |-> FALSE, why |-> ""]]
        ELSE YieldLine(side, r, c)

\* PairedNext that seeks to last_pos at the start of a pass, as the reader
\* without a peer does
PairedNextSeek(side, r0, a, c) ==
    LET r == IF r0.gen = "new"
             THEN [r0 EXCEPT !.iteration_index = -1, !.pos = r0.last_pos]
             ELSE r0
    IN  IF r.line_index < a.line_index
        THEN IF AtEof(c, r.pos)
             THEN [rd |-> [r EXCEPT !.gen = "done"],
                   res |-> "AssertionError: lines", rec |-> [ok |-> FALSE, why |-> ""]]
             ELSE YieldLine(side, r, c)
        ELSE [rd |-> [r EXCEPT !.eof = (r.eof \/ a.eof), !.gen = "done"],
              res |-> "stop", rec |-> [ok |-> FALSE, why |-> ""]]

\* one next() on the generator of a reader paired with the peer a
PairedNext(side, r0, a, c) ==
    LET r == IF r0.gen = "new" THEN [r0 EXCEPT !.iteration_index = -1] ELSE r0
    IN  IF r.line_index < a.line_index
        THEN IF AtEof(c, r.pos)
             THEN [rd |-> [r EXCEPT !.gen = "done"],
                   res |-> "AssertionError: lines", rec |-> [ok |-> FALSE, why |-> ""]]
             ELSE YieldLine(side, r, c)
        ELSE [rd |-> [r EXCEPT !.eof = (r.eof \/ a.eof), !.gen = "done"],
              res |-> "stop", rec |-> [ok |-> FALSE, why |-> ""]]

\* read_text_file: the generator over a whole file, a reader in the same
\* shape ("for i, line in enumerate(corpus_file)")
FileReader == [NewReader(0, "none") EXCEPT !.kind = "file"]

FileNext(side, r, c) ==
    IF AtEof(c, r.pos)
    THEN [rd |-> [r EXCEPT !.eof = TRUE, !.gen = "done"],
          res |-> "stop", rec |-> [ok |-> FALSE, why |-> ""]]
    ELSE YieldLine(side, r, c)

\* next() on a side's generator: rdf is the current state of all readers
GenNext(side, rdf, corp) ==
    IF rdf[side].kind = "file"
    THEN FileNext(side, rdf[side], corp[side])
    ELSE IF rdf[side].assoc = "none"
    THEN StandaloneNext(side, rdf[side], corp[side])
    ELSE PairedNext(side, rdf[side], rdf[rdf[side].assoc], corp[side])

\* hit_end
HitEnd(r) == r.eof

-----------------------------------------------------------------------------
(* A pass over one reader: "for record in reader" *)

\* iter(reader): a new generator; its body runs at the first next()
StartPass ==
    /\ phase = "idle"
    /\ ~HitEnd(rd[sides[1]])
    /\ rd' = [s \in DOMAIN rd |-> [rd[s] EXCEPT !.gen = "new"]]
    /\ phase' = "pass"
    /\ shard' = <<>>
    /\ UNCHANGED <<corpus, sides, err, out, cfg, ds, dyn, cc, cg, fld, it>>

\* next() on the generator; the loop ends at StopIteration, and the driver
\* ("while not reader.hit_end()") ends once the flag is set
NextRecord ==
    /\ phase = "pass"
    /\ LET side == sides[1]
           g == GenNext(side, rd, corpus)
       IN  /\ rd' = [rd EXCEPT ![side] = g.rd]
           /\ IF g.res = "yield"
              THEN /\ out' = [out EXCEPT ![side] = Append(@, g.rec)]
                   /\ shard' = Append(shard, <<g.rec>>)
                   /\ UNCHANGED <<phase, err, it>>
              ELSE IF g.res = "stop"
              THEN /\ phase' = IF HitEnd(g.rd) THEN "done" ELSE "idle"
                   /\ UNCHANGED <<out, shard, err, it>>
              ELSE /\ phase' = "error"
                   /\ err' = g.res
                   /\ UNCHANGED <<out, shard, it>>
    /\ UNCHANGED <<corpus, sides, cfg, ds, dyn, cc, cg, fld, it>>

-----------------------------------------------------------------------------
(* Inputs *)

Tok(w) == <<w>>

\* the lines of the short corpora: a blank line, one token, two tokens
LineKinds == { <<>>, <<Tok("a")>>, <<Tok("b"), Tok("c")>> }

\* the long corpora repeat one of these line patterns
Patterns == { << <<Tok("a")>> >>,
              << <<Tok("a"), Tok("b")>>, <<Tok("c")>> >>,
              << <<Tok("a")>>, <<Tok("b"), Tok("c"), Tok("d")>>, <<Tok("a"), Tok("b")>> >> }

PatternCorpus(n, pat) == [k \in 1..n |-> pat[((k - 1) % Len(pat)) + 1]]

LongSizes == (CheckPeriod - 1)..MaxLines

LongCorpora == {PatternCorpus(n, pat) : n \in LongSizes, pat \in Patterns}

ShardSizes == 0..MaxShard

InitShard ==
    /\ sides = <<"src1">>
    /\ \E c \in SeqsUpTo(LineKinds, MaxSmall) \cup LongCorpora :
          corpus = [s \in {"src1"} |-> File(c)]
    /\ \E sz \in ShardSizes : rd = [s \in {"src1"} |-> NewReader(sz, "none")]
    /\ phase = "idle"
    /\ err = ""
    /\ out = [s \in {"src1"} |-> <<>>]
    /\ shard = <<>>
    /\ cfg = NoCfg /\ ds = NoDataset /\ dyn = NoDyn /\ cc = NoCollapse /\ cg = NoCall /\ fld = NoCall /\ it = NoCall

NextShard == StartPass \/ NextRecord

SpecShard == InitShard /\ [][NextShard]_vars

-----------------------------------------------------------------------------
(* A pass over several readers: TextDataset.__init__'s zip() *)

RECURSIVE ZipFold(_, _, _)
RECURSIVE ZipStep(_, _, _, _)
\* zip.__next__: next() on each iterator in order; the first one that does
\* not yield ends the round, and the iterators after it are not touched
ZipFold(i, rdf, recs) ==
    IF i > Len(sides) THEN [rd |-> rdf, res |-> "yield", recs |-> recs]
    ELSE ZipStep(i, rdf, recs, GenNext(sides[i], rdf, corpus))

\* g: what next() on the i-th iterator gave
ZipStep(i, rdf, recs, g) ==
    IF g.res = "yield"
    THEN ZipFold(i + 1, [rdf EXCEPT ![sides[i]] = g.rd], Append(recs, g.rec))
    ELSE [rd |-> [rdf EXCEPT ![sides[i]] = g.rd], res |-> g.res, recs |-> recs]

\* the position of a side in the zip order (0: not there)
SideNo(s) == IF \E i \in 1..Len(sides) : sides[i] = s
             THEN CHOOSE i \in 1..Len(sides) : sides[i] = s ELSE 0

\* every record a generator yielded in this round, whether or not the round
\* produced a tuple
Logged(z) == [s \in DOMAIN out |->
                IF SideNo(s) \in 1..Len(z.recs)
                THEN Append(out[s], z.recs[SideNo(s)]) ELSE out[s]]

\* z: what the round of zip gave
ZipRound(z) ==
    /\ rd' = z.rd
    /\ out' = Logged(z)
    /\ IF z.res = "yield"
       THEN /\ shard' = Append(shard, z.recs)
            /\ UNCHANGED <<phase, err, it>>
       ELSE IF z.res = "stop"
       THEN /\ phase' = IF HitEnd(z.rd[sides[1]]) THEN "done" ELSE "idle"
            /\ UNCHANGED <<shard, err, it>>
       ELSE /\ phase' = "error"
            /\ err' = z.res
            /\ UNCHANGED shard

ZipNext ==
    /\ phase = "pass"
    /\ ZipRound(ZipFold(1, rd, <<>>))
    /\ UNCHANGED <<corpus, sides, cfg, ds, dyn, cc, cg, fld, it>>

\* the paired reader's corpus: as long as the peer's, or one line off
NearSizes(n) == {m \in {n - 1, n, n + 1} : m >= 0}

PairPatterns == { << <<Tok("c")>>, <<Tok("d"), Tok("a")>> >> }

InitPair ==
    /\ sides = <<"src1", "tgt2">>
    /\ \/ \E c \in SeqsUpTo(LineKinds, MaxPair), t \in SeqsUpTo(LineKinds, MaxPair) :
             corpus = [s \in {"src1", "tgt2"} |-> IF s = "src1" THEN File(c) ELSE File(t)]
       \/ \E n \in LongSizes, p \in Patterns, q \in PairPatterns :
             \E m \in NearSizes(n) :
                corpus = [s \in {"src1", "tgt2"} |->
                            IF s = "src1" THEN File(PatternCorpus(n, p))
                            ELSE File(PatternCorpus(m, q))]
    /\ \E sz \in ShardSizes, sz2 \in {0, MaxShard} :
          rd = [s \in {"src1", "tgt2"} |->
                  IF s = "src1" THEN NewReader(sz, "none") ELSE NewReader(sz2, "src1")]
    /\ phase = "idle"
    /\ err = ""
    /\ out = [s \in {"src1", "tgt2"} |-> <<>>]
    /\ shard = <<>>
    /\ cfg = NoCfg /\ ds = NoDataset /\ dyn = NoDyn /\ cc = NoCollapse /\ cg = NoCall /\ fld = NoCall /\ it = NoCall

NextPair == StartPass \/ ZipNext

SpecPair == InitPair /\ [][NextPair]_vars

-----------------------------------------------------------------------------
(* Properties of the readers *)

\* the words of a corpus line, as a record carries them
LineWords(line) == [i \in 1..Len(line) |-> line[i][1]]

\* the records a side has yielded are the first lines of its corpus, in order
YieldedInOrder(s) ==
    /\ Len(out[s]) <= Len(corpus[s].lines)
    /\ \A k \in 1..Len(out[s]) : out[s][k].words = LineWords(corpus[s].lines[k])

\* C1: a standalone reader yields the lines of its corpus in file order, each
\* once: what it has yielded so far is always the first lines of the file,
\* whatever the shard size and however many passes it took, and once the
\* end-of-file flag is set it is the whole file.
C1_StandaloneExact ==
    /\ YieldedInOrder("src1")
    /\ (rd["src1"].eof => Len(out["src1"]) = Len(corpus["src1"].lines))

\* a run that stopped at the shard check after line 0 and again after line 64
\* and then read the rest of the file
C1_Witness ==
    /\ phase = "done"
    /\ rd["src1"].shard_size = 1
    /\ Len(out["src1"]) = MaxLines
    /\ rd["src1"].last_pos > corpus["src1"].ends[1]

\* C2: a paired reader reads one line for each line its peer yields: after
\* every round of the zip that produced a tuple both readers are at the same
\* line_index, and the records of the paired reader are the first lines of
\* its own corpus in order, whatever its own shard_size.
C2_Lockstep ==
    /\ YieldedInOrder("tgt2")
    /\ (phase = "pass" /\ shard # <<>> =>
          /\ rd["tgt2"].line_index = rd["src1"].line_index
          /\ Len(out["tgt2"]) = Len(out["src1"])
          /\ Len(out["tgt2"]) = rd["tgt2"].line_index + 1)

\* the paired reader has followed its peer across a shard boundary of the
\* peer in the middle of the corpus, with a shard_size of its own
C2_Witness ==
    /\ phase = "pass"
    /\ shard # <<>>
    /\ rd["tgt2"].shard_size = MaxShard
    /\ rd["src1"].last_pos > corpus["src1"].ends[1]
    /\ rd["tgt2"].line_index > CheckPeriod

\* C3: over two corpora with the same number of lines the run ends with the
\* end-of-file flag of both readers set.
C3_BothEofAtEnd ==
    (phase = "done" /\ Len(corpus["src1"].lines) = Len(corpus["tgt2"].lines))
        => (rd["src1"].eof /\ rd["tgt2"].eof)

\* C4: over two corpora with different numbers of lines no run ends normally:
\* the mismatch error is raised first.
C4_MismatchRaised ==
    Len(corpus["src1"].lines) # Len(corpus["tgt2"].lines) => phase # "done"

-----------------------------------------------------------------------------
(* torchtext.vocab.Vocab as _dynamic_dict builds it:                       *)
(*   Vocab(Counter(src), specials=[UNK_WORD, PAD_WORD])                    *)
(* A vocabulary is its itos list; the id of itos[i] is i - 1.              *)

UNK_WORD == "<unk>"
PAD_WORD == "<pad>"

\* the order Python gives the strings of the model (by code point)
WordOrder == <<"1", "2", "3", "<pad>", "<unk>", "N/A", "a", "b", "c", "d">>

Rank(w) == CHOOSE i \in 1..Len(WordOrder) : WordOrder[i] = w

Count(w, toks) == Cardinality({i \in 1..Len(toks) : toks[i] = w})

\* the specials first, then the words by decreasing count, ties by word
Vocab(toks) ==
    LET words == {toks[i] : i \in 1..Len(toks)} \ {UNK_WORD, PAD_WORD}
        before(u, w) == \/ Count(u, toks) > Count(w, toks)
                        \/ Count(u, toks) = Count(w, toks) /\ Rank(u) < Rank(w)
        place(w) == Cardinality({u \in words : before(u, w)}) + 1
    IN  <<UNK_WORD, PAD_WORD>> \o
        [i \in 1..Cardinality(words) |-> CHOOSE w \in words : place(w) = i]

\* vocab.stoi[w]: a defaultdict that gives the unknown id 0 to a missing word
Stoi(itos, w) ==
    IF \E i \in 1..Len(itos) : itos[i] = w
    THEN (CHOOSE i \in 1..Len(itos) : itos[i] = w) - 1
    ELSE 0

-----------------------------------------------------------------------------
(* TextDataset._dynamic_dict, for one example                              *)
(* A pointer line is the sequence of its groups, a group the sequence of   *)
(* its integers: what split() and int() make of the line.                  *)

\* no pointer file: "pointers is None"
NoPointers == [given |-> FALSE, lines |-> <<>>]
Pointers(lines) == [given |-> TRUE, lines |-> lines]

\* example["ptrs"] = None
NonePtrs == <<>>

\* Mask without the begin marker
MaskNoBegin(itos, tgt) ==
    [i \in 1..Len(tgt) |-> Stoi(itos, tgt[i])] \o <<0>>

\* [0] + [stoi[w] for w in tgt] + [0]
Mask(itos, tgt) ==
    <<0>> \o [i \in 1..Len(tgt) |-> Stoi(itos, tgt[i])] \o <<0>>

\* the leading integer of every group of the line
PointerEntries(line) == {line[g][1] : g \in 1..Len(line)}

\* PointerMask counting the target tokens from 1
PointerMaskFromOne(itos, tgt, line) ==
    <<0>> \o [i \in 1..Len(tgt) |->
                IF i \in PointerEntries(line)
                THEN Stoi(itos, tgt[i]) ELSE Stoi(itos, UNK_WORD)] \o <<0>>

\* [0] + [stoi[w] if i in pointer_entries else stoi[UNK_WORD] ...] + [0];
\* i counts the target tokens from 0
PointerMask(itos, tgt, line) ==
    <<0>> \o [i \in 1..Len(tgt) |->
                IF (i - 1) \in PointerEntries(line)
                THEN Stoi(itos, tgt[i]) ELSE Stoi(itos, UNK_WORD)] \o <<0>>

RECURSIVE MaxGroupLen(_)
MaxGroupLen(line) ==
    IF line = <<>> THEN 0
    ELSE LET m == MaxGroupLen(Tail(line))
         IN  IF Len(Head(line)) > m THEN Len(Head(line)) ELSE m

\* PtrsTable without the two length rows
PtrsTableGroupsOnly(line, src, tgt) ==
    LET max_len == MaxGroupLen(line)
        num_rows == Len(line)
    IN  [j \in 1..num_rows |->
          [k \in 1..(max_len + 1) |->
             IF k = max_len + 1 THEN Len(line[j])
             ELSE IF k <= Len(line[j]) THEN line[j][k] ELSE 0]]

\* PtrsTable with the two length rows in the other order
PtrsTableSwapped(line, src, tgt) ==
    LET max_len == MaxGroupLen(line)
        num_rows == Len(line) + 2
    IN  [j \in 1..num_rows |->
          [k \in 1..(max_len + 1) |->
             IF j <= num_rows - 2
             THEN IF k = max_len + 1 THEN Len(line[j])
                  ELSE IF k <= Len(line[j]) THEN line[j][k] ELSE 0
             ELSE IF k # 1 THEN 0
                  ELSE IF j = num_rows - 1 THEN Len(tgt) ELSE Len(src)]]

\* the pointer table: one row per group (its integers, zeros, its size in
\* the last column), then a row for len(src) and a row for len(tgt)
PtrsTable(line, src, tgt) ==
    LET max_len == MaxGroupLen(line)
        num_rows == Len(line) + 2
    IN  [j \in 1..num_rows |->
          [k \in 1..(max_len + 1) |->
             IF j <= num_rows - 2
             THEN IF k = max_len + 1 THEN Len(line[j])
                  ELSE IF k <= Len(line[j]) THEN line[j][k] ELSE 0
             ELSE IF k # 1 THEN 0
                  ELSE IF j = num_rows - 1 THEN Len(src) ELSE Len(tgt)]]

\* The body of the loop for the example ex, the loop_index-th (from 0) of the
\* dataset.  ok = FALSE: pointers[loop_index] is past the end of the file.
DynamicDict(ex, loop_index, pointers, ref_pointers) ==
    LET src == ex.src2
        ref_src == ex.ref_src
        src_vocab == Vocab(src)
        ref_src_vocab == Vocab(ref_src)
        has_tgt == "tgt2" \in DOMAIN ex
        use_p == has_tgt /\ pointers.given
        use_r == has_tgt /\ ref_pointers.given
        bad == \/ use_p /\ loop_index + 1 > Len(pointers.lines)
               \/ use_r /\ loop_index + 1 > Len(ref_pointers.lines)
        line == pointers.lines[loop_index + 1]
        ref_line == ref_pointers.lines[loop_index + 1]
        base == [k \in {"src_map", "ref_src_map"} |->
                   IF k = "src_map"
                   THEN [i \in 1..Len(src) |-> Stoi(src_vocab, src[i])]
                   ELSE [i \in 1..Len(ref_src) |-> Stoi(ref_src_vocab, ref_src[i])]]
        more == [k \in {"alignment", "ref_alignment", "ptrs", "ref_ptrs"} |->
                   CASE k = "alignment" ->
                          IF use_p THEN PointerMask(src_vocab, ex.tgt2, line)
                          ELSE Mask(src_vocab, ex.tgt2)
                     [] k = "ref_alignment" ->
                          IF use_r THEN PointerMask(ref_src_vocab, ex.ref_tgt, ref_line)
                          ELSE Mask(ref_src_vocab, ex.ref_tgt)
                     [] k = "ptrs" ->
                          IF use_p THEN PtrsTable(line, src, ex.tgt2) ELSE NonePtrs
                     [] k = "ref_ptrs" ->
                          IF use_r THEN PtrsTable(ref_line, ref_src, ex.ref_tgt)
                          ELSE NonePtrs]
    IN  IF bad
        THEN [ok |-> FALSE, ex |-> ex, src_vocab |-> src_vocab,
              ref_src_vocab |-> ref_src_vocab]
        ELSE [ok |-> TRUE,
              ex |-> IF has_tgt THEN ex @@ base @@ more ELSE ex @@ base,
              src_vocab |-> src_vocab, ref_src_vocab |-> ref_src_vocab]

-----------------------------------------------------------------------------
(* One example through _dynamic_dict *)

\* longest src2 / tgt2 of the example, most groups on its pointer line
MaxSrcLen == 3
MaxTgtLen == 2
MaxGroups == 2

SrcWords == {"a", "b", "c"}
TgtWords == {"b", "c", "d"}
Groups == { <<0>>, <<1, 0, 2>> }

NonEmptySeqs(S, n) == SeqsUpTo(S, n) \ {<<>>}

InitDyn ==
    /\ \E src \in NonEmptySeqs(SrcWords, MaxSrcLen), tgt \in NonEmptySeqs(TgtWords, MaxTgtLen) :
         \E p \in {NoPointers} \cup {Pointers(<<l>>) : l \in SeqsUpTo(Groups, MaxGroups)} :
            dyn = [ex |-> [src2 |-> src, tgt2 |-> tgt, ref_src |-> tgt,
                           ref_tgt |-> src, indices |-> 0],
                   pointers |-> p, done |-> FALSE]
    /\ corpus = <<>> /\ rd = <<>> /\ sides = <<>> /\ out = <<>> /\ shard = <<>>
    /\ phase = "idle" /\ err = ""
    /\ cfg = NoCfg /\ ds = NoDataset /\ cc = NoCollapse /\ cg = NoCall /\ fld = NoCall /\ it = NoCall

\* the generator's loop body runs on the example
BuildExample ==
    /\ dyn # NoDyn
    /\ ~dyn.done
    /\ LET d == DynamicDict(dyn.ex, 0, dyn.pointers, NoPointers)
       IN  dyn' = [dyn EXCEPT !.done = TRUE, !.ex = d.ex] @@ [src_vocab |-> d.src_vocab]
    /\ UNCHANGED <<corpus, rd, sides, phase, err, out, shard, cfg, ds, cc, cg, fld, it>>

NextDyn == BuildExample

SpecDyn == InitDyn /\ [][NextDyn]_vars

-----------------------------------------------------------------------------
(* Properties of the alignment and of the pointer table *)

Occurs(w, toks) == \E i \in 1..Len(toks) : toks[i] = w

\* d is the id the vocabulary itos gives the word w
IsIdOf(d, w, itos) == d + 1 \in 1..Len(itos) /\ itos[d + 1] = w

\* the alignment has a begin and an end marker, both 0, around one entry per
\* target token
Framed(al, tgt) == Len(al) = Len(tgt) + 2 /\ al[1] = 0 /\ al[Len(al)] = 0

\* C6: without a pointer file the alignment has len(tgt2) + 2 entries, the
\* first and the last are 0, and entry i + 1 is the dynamic-vocabulary id of
\* target token i if the token occurs in src2 and 0 otherwise; src2 = a b c
\* and tgt2 = b c give [0, 3, 4, 0].
C6_Alignment ==
    (dyn # NoDyn /\ dyn.done /\ ~dyn.pointers.given) =>
        LET al == dyn.ex.alignment
            tgt == dyn.ex.tgt2
            src == dyn.ex.src2
        IN  /\ Framed(al, tgt)
            /\ \A i \in 1..Len(tgt) :
                 IF Occurs(tgt[i], src)
                 THEN al[i + 1] >= 2 /\ IsIdOf(al[i + 1], tgt[i], dyn.src_vocab)
                 ELSE al[i + 1] = 0
            /\ (src = <<"a", "b", "c">> /\ tgt = <<"b", "c">> => al = <<0, 3, 4, 0>>)

\* the example of the claim has been built
C6_Witness ==
    /\ dyn # NoDyn /\ dyn.done /\ ~dyn.pointers.given
    /\ dyn.ex.src2 = <<"a", "b", "c">>
    /\ dyn.ex.tgt2 = <<"b", "c">>
    /\ dyn.ex.alignment = <<0, 3, 4, 0>>

\* the target positions (from 0) that lead a group of the pointer line
Named(line) == {g[1] : g \in {line[j] : j \in 1..Len(line)}}

-----------------------------------------------------------------------------
(* TextDataset.__init__: the examples of one dataset (one shard, or one    *)
(* whole file)                                                             *)

\* int(word) on the words int() accepts
IntOf(w) == CASE w = "1" -> 1 [] w = "2" -> 2 [] w = "3" -> 3

\* the dictionary a reader yields for a line (read_text_file 240-246,
\* _example_dict_iter 606-615)
RecDict(r) ==
    LET d == (r.side :> r.words) @@ ("indices" :> r.indices)
             @@ ((r.side \o "_char") :> r.chars)
    IN  IF r.side = "tgt1"
        THEN d @@ ("tgt1_planning" :> [i \in 1..Len(r.words) |-> IntOf(r.words[i])])
        ELSE d

RECURSIVE JoinDicts(_)
\* _join_dicts: one dictionary from the tuple's dictionaries, a later one
\* overriding an earlier one on a common key
JoinDicts(recs) ==
    IF recs = <<>> THEN <<>>
    ELSE RecDict(recs[Len(recs)]) @@ JoinDicts(SubSeq(recs, 1, Len(recs) - 1))

\* filter_pred evaluates example.ptrs.size(0): an AttributeError when there
\* is no table
FilterFails(e) ==
    /\ cfg.use_filter_pred
    /\ 0 < Len(e.src1) /\ Len(e.src1) <= cfg.src_seq_length
    /\ 0 < Len(e.tgt1) /\ Len(e.tgt1) <= cfg.tgt_seq_length
    /\ cfg.pointers.given
    /\ ("ptrs" \notin DOMAIN e \/ e.ptrs = NonePtrs)

\* filter_pred with the upper bounds exclusive
FilterPredStrict(e) ==
    \/ ~cfg.use_filter_pred
    \/ /\ 0 < Len(e.src1) /\ Len(e.src1) < cfg.src_seq_length
       /\ 0 < Len(e.tgt1) /\ Len(e.tgt1) < cfg.tgt_seq_length
       /\ (~cfg.pointers.given \/ 1 < Len(e.ptrs))

\* filter_pred, or "lambda x: True" without use_filter_pred
FilterPred(e) ==
    \/ ~cfg.use_filter_pred
    \/ /\ 0 < Len(e.src1) /\ Len(e.src1) <= cfg.src_seq_length
       /\ 0 < Len(e.tgt1) /\ Len(e.tgt1) <= cfg.tgt_seq_length
       /\ (~cfg.pointers.given \/ 1 < Len(e.ptrs))

\* the base class keeps the examples the predicate accepts, in order
ApplyFilter(examples) == SelectSeq(examples, FilterPred)

NewDataset == [src_vocabs |-> <<>>, ref_src_vocabs |-> <<>>,
               out_examples |-> <<>>, examples |-> <<>>, built |-> FALSE]

\* TextDataset(...) is called: the vocabulary lists are empty and zip() takes
\* an iterator of every reader.  The caller builds one dataset from whole
\* files, or one per shard while the peer has not hit the end.
StartDataset ==
    /\ phase = "idle"
    /\ ~HitEnd(rd[sides[1]])
    /\ rd' = [s \in DOMAIN rd |-> [rd[s] EXCEPT !.gen = "new"]]
    /\ ds' = NewDataset
    /\ phase' = "pass"
    /\ shard' = <<>>
    /\ UNCHANGED <<corpus, sides, err, out, cfg, dyn, cc, cg, fld, it>>

\* the last step of __init__, once zip() is exhausted: _peek needs a first
\* example, filter_pred is applied to every example
FinishDataset(z) ==
    IF ds.out_examples = <<>>
    THEN /\ phase' = "error" /\ err' = "StopIteration: _peek"
         /\ UNCHANGED ds
    ELSE IF \E k \in 1..Len(ds.out_examples) : FilterFails(ds.out_examples[k])
    THEN /\ phase' = "error" /\ err' = "AttributeError: ptrs"
         /\ UNCHANGED ds
    ELSE /\ ds' = [ds EXCEPT !.examples = ApplyFilter(ds.out_examples),
                             !.built = TRUE]
         /\ phase' = IF cfg.reading = "file" \/ HitEnd(z.rd[sides[1]])
                     THEN "done" ELSE "idle"
         /\ err' = err

\* "if dynamic_dict and src2_examples_iter is not None"
UsesDynamicDict == cfg.dynamic_dict /\ \E i \in 1..Len(sides) : sides[i] = "src2"

\* d: the joined example after _dynamic_dict (when it applies)
AddExample(d) ==
    IF d.ok
    THEN /\ ds' = IF UsesDynamicDict
                  THEN [ds EXCEPT !.src_vocabs = Append(@, d.src_vocab),
                                  !.ref_src_vocabs = Append(@, d.ref_src_vocab),
                                  !.out_examples = Append(@, d.ex)]
                  ELSE [ds EXCEPT !.out_examples = Append(@, d.ex)]
         /\ UNCHANGED <<phase, err, it>>
    ELSE /\ phase' = "error" /\ err' = "IndexError: pointers"
         /\ ds' = [ds EXCEPT !.src_vocabs = Append(@, d.src_vocab),
                             !.ref_src_vocabs = Append(@, d.ref_src_vocab)]

\* ex: the joined example
Joined(ex) ==
    IF UsesDynamicDict
    THEN AddExample(DynamicDict(ex, Len(ds.out_examples), cfg.pointers, cfg.ref_pointers))
    ELSE AddExample([ok |-> TRUE, ex |-> ex])

\* z: what the round of zip gave
AssembleRound(z) ==
    /\ rd' = z.rd
    /\ out' = Logged(z)
    /\ IF z.res = "yield"
       THEN /\ shard' = Append(shard, z.recs)
            /\ Joined(JoinDicts(z.recs))
       ELSE IF z.res = "stop"
       THEN /\ FinishDataset(z)
            /\ UNCHANGED shard
       ELSE /\ phase' = "error" /\ err' = z.res
            /\ UNCHANGED <<shard, ds, it>>

\* one more tuple is pulled through zip, _join_dicts and _dynamic_dict and
\* made an example; or zip() is exhausted and the dataset is finished
AssembleNext ==
    /\ phase = "pass"
    /\ AssembleRound(ZipFold(1, rd, <<>>))
    /\ UNCHANGED <<corpus, sides, cfg, dyn, cc, cg, fld, it>>

-----------------------------------------------------------------------------
(* Datasets over small parallel corpora *)

\* most lines of the parallel corpora
MaxExamples == 3
\* largest src_seq_length / tgt_seq_length tried
MaxSeqLen == 2

DataSides == <<"src1", "tgt1", "src2", "tgt2", "ref_src", "ref_tgt">>

\* the parallel lines the corpora are made of, with the pointer line and the
\* reference pointer line of each
DataBundles == {
    [src1 |-> <<"a">>, tgt1 |-> <<"1">>,
     src2 |-> <<"a", "b", "c">>, tgt2 |-> <<"b", "c">>,
     ref_src |-> <<"b", "a">>, ref_tgt |-> <<"a">>,
     ptr |-> << <<1, 0, 2>> >>, ref_ptr |-> << <<0, 1>> >>],
    [src1 |-> <<"a", "b">>, tgt1 |-> <<"1", "2">>,
     src2 |-> <<"b", "b", "a">>, tgt2 |-> <<"d">>,
     ref_src |-> <<"c">>, ref_tgt |-> <<"c", "d">>,
     ptr |-> <<>>, ref_ptr |-> <<>>],
    [src1 |-> <<"a", "b", "c">>, tgt1 |-> <<"2">>,
     src2 |-> <<"c">>, tgt2 |-> <<"c", "c">>,
     ref_src |-> <<"a", "a">>, ref_tgt |-> <<"b">>,
     ptr |-> << <<0, 0>>, <<1, 0>> >>, ref_ptr |-> << <<0>> >>],
    [src1 |-> <<"b">>, tgt1 |-> <<"1", "2", "3">>,
     src2 |-> <<"d", "a">>, tgt2 |-> <<"a">>,
     ref_src |-> <<"d", "d", "b">>, ref_tgt |-> <<"d">>,
     ptr |-> << <<0, 1>> >>, ref_ptr |-> <<>>] }

\* a line of words as the tokens of the file
WordsLine(ws) == [i \in 1..Len(ws) |-> Tok(ws[i])]

DataCorpus(bs) == [s \in {DataSides[i] : i \in 1..Len(DataSides)} |->
                     File([k \in 1..Len(bs) |-> WordsLine(bs[k][s])])]

InitData ==
    /\ sides = DataSides
    /\ \E bs \in SeqsUpTo(DataBundles, MaxExamples) :
         /\ corpus = DataCorpus(bs)
         /\ \E reading \in {"file", "sharded"}, sl \in 1..MaxSeqLen, tl \in {1, MaxSeqLen},
               dd \in BOOLEAN, uf \in BOOLEAN, pf \in BOOLEAN :
              /\ cfg = [reading |-> reading, src_seq_length |-> sl,
                        tgt_seq_length |-> tl, dynamic_dict |-> dd,
                        use_filter_pred |-> uf,
                        pointers |-> IF pf THEN Pointers([k \in 1..Len(bs) |-> bs[k].ptr])
                                     ELSE NoPointers,
                        ref_pointers |-> IF pf THEN Pointers([k \in 1..Len(bs) |-> bs[k].ref_ptr])
                                         ELSE NoPointers]
              /\ rd = [s \in DOMAIN corpus |->
                         IF reading = "file" THEN FileReader
                         ELSE IF s = "src1" THEN NewReader(1, "none")
                         ELSE NewReader(0, "src1")]
    /\ phase = "idle"
    /\ err = ""
    /\ out = [s \in DOMAIN corpus |-> <<>>]
    /\ shard = <<>>
    /\ ds = NewDataset
    /\ dyn = NoDyn
    /\ cc = NoCollapse /\ cg = NoCall /\ fld = NoCall /\ it = NoCall

NextData == StartDataset \/ AssembleNext

SpecData == InitData /\ [][NextData]_vars

-----------------------------------------------------------------------------
(* Properties of the assembled dataset *)

\* the vocabulary at position index (from 0) of vocabs is the one of toks
IsVocabAt(vocabs, index, toks) ==
    /\ index + 1 \in 1..Len(vocabs)
    /\ vocabs[index + 1] = Vocab(toks)

\* C5: with the dynamic dictionary enabled, src_vocabs and ref_src_vocabs
\* hold exactly one vocabulary per joined example, in join order (the k-th
\* vocabulary is the one of the k-th joined example's src2 / ref_src tokens,
\* at every moment of the assembly), and in the assembled dataset, after
\* filtering, src_vocabs[e.indices] is the vocabulary of e's own src2 tokens
\* for every kept example e (likewise ref_src_vocabs and ref_src), for
\* whole-file reading and for every shard of the sharded readers.
C5_VocabPerExample ==
    (ds # NoDataset /\ UsesDynamicDict /\ phase # "error") =>
        /\ Len(ds.src_vocabs) = Len(ds.out_examples)
        /\ Len(ds.ref_src_vocabs) = Len(ds.out_examples)
        /\ \A k \in 1..Len(ds.out_examples) :
              /\ ds.src_vocabs[k] = Vocab(ds.out_examples[k].src2)
              /\ ds.ref_src_vocabs[k] = Vocab(ds.out_examples[k].ref_src)
        /\ ds.built =>
              \A k \in 1..Len(ds.examples) :
                 /\ IsVocabAt(ds.src_vocabs, ds.examples[k].indices, ds.examples[k].src2)
                 /\ IsVocabAt(ds.ref_src_vocabs, ds.examples[k].indices,
                              ds.examples[k].ref_src)

\* the dataset of the second shard: the filter dropped the shard's first
\* example and kept its second, whose vocabulary differs from the first's
C5_Witness ==
    /\ ds # NoDataset /\ UsesDynamicDict /\ ds.built
    /\ cfg.reading = "sharded" /\ cfg.use_filter_pred
    /\ rd["src1"].last_pos > 0
    /\ Len(ds.out_examples) = 2
    /\ Len(ds.examples) = 1
    /\ ds.examples[1].indices = 1
    /\ ds.src_vocabs[1] # ds.src_vocabs[2]

\* the condition under which an example is kept
KeptWhen(e) ==
    /\ 0 < Len(e.src1) /\ Len(e.src1) <= cfg.src_seq_length
    /\ 0 < Len(e.tgt1) /\ Len(e.tgt1) <= cfg.tgt_seq_length
    /\ \/ ~cfg.pointers.given
       \/ "ptrs" \in DOMAIN e /\ Len(e.ptrs) > 1

KeptAlways(e) == TRUE

\* C9: with filtering enabled the examples of the dataset are exactly the
\* assembled examples with 0 < len(src1) <= src_seq_length and
\* 0 < len(tgt1) <= tgt_seq_length and (no pointer file, or a pointer table
\* of more than one row), in their order; with filtering disabled they are
\* all the assembled examples.
C9_FilterKeeps ==
    (ds # NoDataset /\ ds.built) =>
        ds.examples = IF cfg.use_filter_pred
                      THEN SelectSeq(ds.out_examples, KeptWhen)
                      ELSE SelectSeq(ds.out_examples, KeptAlways)

\* a dataset with filtering enabled that kept an example whose src1 and tgt1
\* are exactly as long as the limits, and dropped one that is too long
C9_Witness ==
    /\ ds # NoDataset /\ ds.built /\ cfg.use_filter_pred
    /\ Len(ds.examples) < Len(ds.out_examples)
    /\ \E k \in 1..Len(ds.examples) :
          /\ Len(ds.examples[k].src1) = cfg.src_seq_length
          /\ Len(ds.examples[k].tgt1) = cfg.tgt_seq_length

-----------------------------------------------------------------------------
(* TextDataset.collapse_copy_scores.  The scores of one time step: a row   *)
(* per example of the batch, a slot (from 0) per id of the fixed           *)
(* vocabulary followed by a slot per id of the dynamic vocabulary.  A      *)
(* score is a whole number of units of 1e-10.                              *)

BOS_WORD == "<s>"
EOS_WORD == "</s>"

\* "index_fill_(1, blank, 1e-10)", in units of 1e-10
Floor == 1

\* the dynamic vocabulary at the position (from 1) of the example in the batch
VocabAtPosition(src_vocabs, indices, b) == src_vocabs[b]

\* "index = batch.indices.data[b]; src_vocab = src_vocabs[index]"
VocabOfExample(src_vocabs, indices, b) == src_vocabs[indices[b] + 1]

\* the i of "for i in range(1, len(src_vocab))" that pass "if ti != 0"
Collapsing(src_vocab, tgt_vocab) ==
    LET known(i) == Stoi(tgt_vocab, src_vocab[i + 1]) # 0
    IN  SelectSeq([i \in 1..(Len(src_vocab) - 1) |-> i], known)

RECURSIVE IndexAdd(_, _, _, _)
\* index_add_(1, fill, vals), from the k-th index on: row[fill[k]] += vals[k]
IndexAdd(row, fill, vals, k) ==
    IF k > Len(fill) THEN row
    ELSE IndexAdd([row EXCEPT ![fill[k]] = @ + vals[k]], fill, vals, k + 1)

\* index_fill_(1, blank, v)
IndexFill(row, blank, v) ==
    [j \in DOMAIN row |-> IF \E k \in 1..Len(blank) : blank[k] = j THEN v ELSE row[j]]

\* blank and fill of the loop, from the i that collapse
BlankFill(offset, src_vocab, tgt_vocab, sel) ==
    [blank |-> [k \in 1..Len(sel) |-> offset + sel[k]],
     fill |-> [k \in 1..Len(sel) |-> Stoi(tgt_vocab, src_vocab[sel[k] + 1])]]

\* "if blank:": index_select raises on a slot the row does not have
Collapsed(row, bf) ==
    IF \E k \in 1..Len(bf.blank) : bf.blank[k] \notin DOMAIN row
    THEN [ok |-> FALSE, row |-> row]
    ELSE IF bf.blank = <<>> THEN [ok |-> TRUE, row |-> row]
    ELSE [ok |-> TRUE,
          row |-> IndexFill(IndexAdd(row, bf.fill,
                                     [k \in 1..Len(bf.blank) |-> row[bf.blank[k]]], 1),
                            bf.blank, Floor)]

\* the body of "for b in range(batch.batch_size)" on the row of one example
CollapseExample(row, src_vocab, tgt_vocab) ==
    Collapsed(row, BlankFill(Len(tgt_vocab), src_vocab, tgt_vocab,
                             Collapsing(src_vocab, tgt_vocab)))

RECURSIVE CollapseFrom(_, _, _, _, _)
RECURSIVE CollapseStep(_, _, _, _, _, _)
\* the loop over the batch from its b-th example on; the scores are changed
\* in place, so what is done stays done when a later example raises
CollapseFrom(scores, indices, tgt_vocab, src_vocabs, b) ==
    IF b > Len(indices) THEN [ok |-> TRUE, scores |-> scores]
    ELSE CollapseStep(scores, indices, tgt_vocab, src_vocabs, b,
                      CollapseExample(scores[b],
                                      VocabOfExample(src_vocabs, indices, b),
                                      tgt_vocab))

\* c: what the body gave for the b-th example
CollapseStep(scores, indices, tgt_vocab, src_vocabs, b, c) ==
    IF c.ok
    THEN CollapseFrom([scores EXCEPT ![b] = c.row], indices, tgt_vocab, src_vocabs, b + 1)
    ELSE [ok |-> FALSE, scores |-> scores]

collapse_copy_scores(scores, indices, tgt_vocab, src_vocabs) ==
    CollapseFrom(scores, indices, tgt_vocab, src_vocabs, 1)

-----------------------------------------------------------------------------
(* Calls of collapse_copy_scores on small batches *)

\* most examples of a batch
MaxBatch == 2
\* the examples of the dataset the batch is drawn from
MaxVocabs == 3

\* the src2 lines the dynamic vocabularies are built from
DynTokens == { <<"a">>, <<"b", "a", "b">>, <<"c", "a">>, <<"d">> }

\* the words of the fixed vocabulary after its four reserved tokens
FixedWords == { <<>>, <<"a">>, <<"b", "a">>, <<"c", "d", "b">> }

Specials == <<UNK_WORD, PAD_WORD, BOS_WORD, EOS_WORD>>

SeqsOfLen(S, n) == [1..n -> S]

\* the widest dynamic vocabulary of the batch
CVocab(src_vocabs, indices) ==
    CHOOSE n \in 0..Len(WordOrder) :
        /\ \A b \in 1..Len(indices) : Len(src_vocabs[indices[b] + 1]) <= n
        /\ \E b \in 1..Len(indices) : Len(src_vocabs[indices[b] + 1]) = n

\* scores that differ from slot to slot and from example to example
Scores0(indices, width) ==
    [b \in 1..Len(indices) |-> [j \in 0..(width - 1) |-> 10 * (j + 1) + b + 1]]

InitCollapse ==
    /\ \E toks \in SeqsOfLen(DynTokens, MaxVocabs), fw \in FixedWords :
         \E indices \in SeqsUpTo(0..(MaxVocabs - 1), MaxBatch) \ {<<>>} :
            LET src_vocabs == [k \in 1..MaxVocabs |-> Vocab(toks[k])]
                tgt_vocab == Specials \o fw
                before == Scores0(indices, Len(tgt_vocab) + CVocab(src_vocabs, indices))
            IN  cc = [tgt_vocab |-> tgt_vocab, src_vocabs |-> src_vocabs,
                      indices |-> indices, before |-> before, scores |-> before,
                      ok |-> TRUE, done |-> FALSE]
    /\ corpus = <<>> /\ rd = <<>> /\ sides = <<>> /\ out = <<>> /\ shard = <<>>
    /\ phase = "idle" /\ err = ""
    /\ cfg = NoCfg /\ ds = NoDataset /\ dyn = NoDyn /\ cg = NoCall /\ fld = NoCall /\ it = NoCall

\* collapse_copy_scores(scores, batch, tgt_vocab, src_vocabs) is called
Collapse ==
    /\ cc # NoCollapse
    /\ ~cc.done
    /\ LET c == collapse_copy_scores(cc.scores, cc.indices, cc.tgt_vocab, cc.src_vocabs)
       IN  cc' = [cc EXCEPT !.scores = c.scores, !.ok = c.ok, !.done = TRUE]
    /\ UNCHANGED <<corpus, rd, sides, phase, err, out, shard, cfg, ds, dyn, cg, fld, it>>

NextCollapse == Collapse

SpecCollapse == InitCollapse /\ [][NextCollapse]_vars

-----------------------------------------------------------------------------
(* Properties of collapse_copy_scores *)

\* the word of dynamic id i has the fixed id t, and t is not the unknown id
MovesTo(v, tgt_vocab, i, t) ==
    /\ i \in 1..(Len(v) - 1)
    /\ t # 0
    /\ \E n \in 1..Len(tgt_vocab) : n - 1 = t /\ tgt_vocab[n] = v[i + 1]

\* the row after is the row before with, for the vocabulary v, every dynamic
\* slot of a word known to the fixed vocabulary moved to the word's fixed slot
RowCollapsed(before, after, v, tgt_vocab) ==
    LET offset == Len(tgt_vocab)
    IN  /\ DOMAIN after = DOMAIN before
        /\ \A j \in DOMAIN before :
              IF j >= offset
              THEN IF \E t \in 0..(offset - 1) : MovesTo(v, tgt_vocab, j - offset, t)
                   THEN after[j] = Floor
                   ELSE after[j] = before[j]
              ELSE IF \E i \in 1..(Len(v) - 1) : MovesTo(v, tgt_vocab, i, j)
                   THEN \E i \in 1..(Len(v) - 1) :
                           /\ MovesTo(v, tgt_vocab, i, j)
                           /\ after[j] = before[j] + before[offset + i]
                   ELSE after[j] = before[j]

\* C10: collapse_copy_scores uses, for each example b of the batch, the
\* dynamic vocabulary src_vocabs[batch.indices[b]]; the mass of the dynamic
\* slot of each of its words that has a non-unknown fixed id t is added to
\* the fixed slot t and the dynamic slot is set to the floor; the dynamic
\* slots of the words absent from the fixed vocabulary, all other fixed
\* slots and the rows of the other examples are left as they were.
C10_Collapse ==
    (cc # NoCollapse /\ cc.done) =>
        /\ cc.ok
        /\ Len(cc.scores) = Len(cc.before)
        /\ \A b \in 1..Len(cc.indices) :
              RowCollapsed(cc.before[b], cc.scores[b],
                           cc.src_vocabs[cc.indices[b] + 1], cc.tgt_vocab)

\* a batch of two examples taken out of dataset order, whose first example
\* has one word known to the fixed vocabulary (its mass is moved) and one
\* unknown to it (its dynamic slot is untouched)
C10_Witness ==
    /\ cc # NoCollapse /\ cc.done /\ cc.ok
    /\ cc.indices = <<2, 0>>
    /\ cc.src_vocabs[3] = <<UNK_WORD, PAD_WORD, "a", "c">>
    /\ cc.src_vocabs[1] = <<UNK_WORD, PAD_WORD, "b", "a">>
    /\ cc.tgt_vocab = Specials \o <<"b", "a">>
    /\ cc.scores[1][5] = cc.before[1][5] + cc.before[1][8]
    /\ cc.scores[1][8] = Floor
    /\ cc.scores[1][9] = cc.before[1][9]
    /\ cc.scores[2][4] = cc.before[2][4] + cc.before[2][8]
    /\ cc.scores[2] # cc.before[2]

-----------------------------------------------------------------------------
(* CopyGeneratorCriterion.__call__.  scores has a row per token, with a    *)
(* slot (from 0) per id of the fixed vocabulary followed by a slot per     *)
(* dynamic id.  A score is a whole number of units of 1e-20.               *)

\* "eps=1e-20", in units of 1e-20
Eps == 1

\* the pad id the loss computation hands to the criterion
PAD_INDEX == 1

\* x.eq(0).float(), x.ne(0).float(), x.ne(y).float()
Eq0(x) == IF x = 0 THEN 1 ELSE 0
Ne0(x) == IF x # 0 THEN 1 ELSE 0
Ne(x, y) == IF x # y THEN 1 ELSE 0

\* -x.log(): the number is kept under the logarithm; log(0) is -inf
NegLog(x) == IF x = 0 THEN [kind |-> "inf", of |-> 0] ELSE [kind |-> "neglog", of |-> x]

\* l.mul(m) for m in {0, 1}: inf * 0 is nan
MulMask(l, m) ==
    IF m = 1 THEN l
    ELSE IF l.kind = "inf" THEN [kind |-> "nan", of |-> 0]
    ELSE [kind |-> "zero", of |-> 0]

\* gather at align, without the offset
CopyScoreNoOffset(row, align, offset) == row[align]

\* "scores.gather(1, align.view(-1, 1) + self.offset)"
CopyScore(row, align, offset) == row[align + offset]

\* eps only on a copy contribution that is not zero
AddEpsToCopy(x) == IF x # 0 THEN x + Eps ELSE x

\* "+ self.eps"
AddEps(x) == x + Eps

\* "out = out.mul(align_not_unk) + self.eps"
Copied(row, align, offset) == AddEps(CopyScore(row, align, offset) * Ne0(align))

\* the regular probability, with the unknown id credited whenever the target
\* is unknown and force_copy is off
RegularFallback(tmp, align, target, force_copy) ==
    IF ~force_copy
    THEN tmp * Ne0(target) + tmp * Eq0(target)
    ELSE tmp * Eq0(align)

\* the regular probability, with no credit for an unknown target under
\* force_copy
RegularDenied(tmp, align, target, force_copy) ==
    IF ~force_copy
    THEN tmp * Ne0(target) + tmp * Eq0(align) * Eq0(target)
    ELSE tmp * Eq0(align) * Ne0(target)

\* "if not self.force_copy: ... else: ...": what is added to out
Regular(tmp, align, target, force_copy) ==
    IF ~force_copy
    THEN tmp * Ne0(target) + tmp * Eq0(align) * Eq0(target)
    ELSE tmp * Eq0(align)

\* out before the logarithm, for one token
Mass(row, align, target, offset, force_copy) ==
    Copied(row, align, offset) + Regular(row[target], align, target, force_copy)

\* the loss without the padding mask
KeepPadding(o, target, pad) == NegLog(o)

\* "loss = -out.log().mul(target.ne(self.pad).float())"
DropPadding(o, target, pad) == MulMask(NegLog(o), Ne(target, pad))

\* o: out before the logarithm, kept as mass
TokenLoss(o, target, pad) == [mass |-> o, loss |-> DropPadding(o, target, pad)]

\* CopyGeneratorCriterion(offset, force_copy, pad)(scores, align, target)
Criterion(scores, align, target, offset, force_copy, pad) ==
    [n \in 1..Len(target) |->
        TokenLoss(Mass(scores[n], align[n], target[n], offset, force_copy),
                  target[n], pad)]

-----------------------------------------------------------------------------
(* Calls of the criterion on a few tokens *)

\* size of the fixed vocabulary (unknown, pad, real ids)
CritVocab == 3
\* size of the dynamic vocabulary
CritDyn == 3
\* most tokens of a call
MaxTokens == 2

\* a row is all zero, or holds a different power of two in every slot
ScoreScales == {0, 1}

ScoreRow(k, width) == [j \in 0..(width - 1) |-> k * 2^(j + 1)]

CritTokens == [target : 0..(CritVocab - 1), align : 0..(CritDyn - 1), k : ScoreScales]

InitCriterion ==
    /\ \E toks \in SeqsUpTo(CritTokens, MaxTokens) \ {<<>>}, force_copy \in BOOLEAN :
          cg = [op |-> "criterion", offset |-> CritVocab, force_copy |-> force_copy,
                pad |-> PAD_INDEX,
                scores |-> [n \in 1..Len(toks) |-> ScoreRow(toks[n].k, CritVocab + CritDyn)],
                align |-> [n \in 1..Len(toks) |-> toks[n].align],
                target |-> [n \in 1..Len(toks) |-> toks[n].target],
                res |-> <<>>, done |-> FALSE]
    /\ corpus = <<>> /\ rd = <<>> /\ sides = <<>> /\ out = <<>> /\ shard = <<>>
    /\ phase = "idle" /\ err = ""
    /\ cfg = NoCfg /\ ds = NoDataset /\ dyn = NoDyn /\ cc = NoCollapse /\ fld = NoCall /\ it = NoCall

\* self.criterion(scores, align, target) is called
CallCriterion ==
    /\ cg # NoCall
    /\ cg.op = "criterion"
    /\ ~cg.done
    /\ cg' = [cg EXCEPT !.res = Criterion(cg.scores, cg.align, cg.target, cg.offset,
                                         cg.force_copy, cg.pad),
                        !.done = TRUE]
    /\ UNCHANGED <<corpus, rd, sides, phase, err, out, shard, cfg, ds, dyn, cc, fld, it>>

NextCriterion == CallCriterion

SpecCriterion == InitCriterion /\ [][NextCriterion]_vars

-----------------------------------------------------------------------------
(* Properties of the criterion *)

CritDone == cg # NoCall /\ cg.op = "criterion" /\ cg.done

\* the tokens of the call
CritToks == 1..Len(cg.target)

\* the extended distribution's value at slot offset + align of token n
PCopy(n) == cg.scores[n][cg.offset + cg.align[n]]

\* the fixed-vocabulary probability of token n at the id t
PFixed(n, t) == cg.scores[n][t]

\* C11: for a token whose target is the unknown id and whose align is not
\* zero the loss is -log(p_copy + eps), p_copy being the value at slot
\* offset + align; the fixed-vocabulary probability of the unknown id is
\* not in it.
C11_CopyLoss ==
    CritDone =>
        \A n \in CritToks :
            (cg.target[n] = 0 /\ cg.align[n] # 0) =>
                cg.res[n].loss = [kind |-> "neglog", of |-> PCopy(n) + Eps]

\* such a token whose fixed-vocabulary probability of the unknown id is not
\* zero, with force_copy off
C11_Witness ==
    /\ CritDone /\ ~cg.force_copy
    /\ \E n \in CritToks :
          /\ cg.target[n] = 0 /\ cg.align[n] # 0
          /\ PFixed(n, 0) # 0 /\ PCopy(n) # 0
          /\ cg.res[n].loss.of = PCopy(n) + Eps

\* C12 as stated: for a token whose target is the unknown id and whose align
\* is not unknown, the mass under the logarithm is the copy probability at
\* the aligned id plus, with force_copy off, the fixed-vocabulary
\* probability of the unknown id; with force_copy on that credit is absent
\* (eps allowed on top in both cases).
C12_FallbackCredit ==
    CritDone =>
        \A n \in CritToks :
            (cg.target[n] = 0 /\ cg.align[n] # 0) =>
                IF cg.force_copy
                THEN cg.res[n].mass \in {PCopy(n), PCopy(n) + Eps}
                ELSE cg.res[n].mass \in {PCopy(n) + PFixed(n, 0),
                                         PCopy(n) + PFixed(n, 0) + Eps}

\* C12 amended: for a token whose target is the unknown id and whose align
\* is not unknown, the mass under the logarithm is the copy probability at
\* the aligned id plus eps whether force_copy is on or off: the
\* fixed-vocabulary probability of the unknown id is credited in neither.
C12_NoFallbackCredit ==
    CritDone =>
        \A n \in CritToks :
            (cg.target[n] = 0 /\ cg.align[n] # 0) =>
                /\ cg.res[n].mass = PCopy(n) + Eps
                /\ PFixed(n, 0) # 0 => cg.res[n].mass < PCopy(n) + PFixed(n, 0)

\* two such tokens in a call with force_copy off, one with all scores zero
\* and one with the unknown id's probability not zero
C12_Witness ==
    /\ CritDone /\ ~cg.force_copy /\ Len(cg.target) = 2
    /\ cg.target = <<0, 0>> /\ cg.align[1] # 0 /\ cg.align[2] # 0
    /\ PFixed(1, 0) = 0 /\ PFixed(2, 0) # 0
    /\ cg.res[2].mass = PCopy(2) + Eps

\* C13 as stated: for a token whose target is the unknown id and whose align
\* is unknown, with force_copy off the mass is the fixed-vocabulary
\* probability of the unknown id only; with force_copy on the mass has no
\* fixed-vocabulary term (eps allowed on top in both cases).
C13_CreditDenied ==
    CritDone =>
        \A n \in CritToks :
            (cg.target[n] = 0 /\ cg.align[n] = 0) =>
                IF cg.force_copy
                THEN cg.res[n].mass \in {0, Eps}
                ELSE cg.res[n].mass \in {PFixed(n, 0), PFixed(n, 0) + Eps}

\* C13 amended: for a token whose target is the unknown id and whose align
\* is unknown, the mass is the fixed-vocabulary probability of the unknown
\* id plus eps, with force_copy off and with force_copy on; nothing of the
\* copy segment is in it.
C13_CreditKept ==
    CritDone =>
        \A n \in CritToks :
            (cg.target[n] = 0 /\ cg.align[n] = 0) =>
                cg.res[n].mass = PFixed(n, 0) + Eps

\* such a token in a call with force_copy on, with the unknown id's
\* probability and the first dynamic slot not zero
C13_Witness ==
    /\ CritDone /\ cg.force_copy
    /\ \E n \in CritToks :
          /\ cg.target[n] = 0 /\ cg.align[n] = 0
          /\ PFixed(n, 0) # 0 /\ PCopy(n) # 0
          /\ cg.res[n].mass = PFixed(n, 0) + Eps

\* C14 as stated: for a token whose target is a real id (not unknown, not
\* pad) and whose align is zero the loss is -log(p), p being the
\* fixed-vocabulary probability at the target id, with nothing added to p.
C14_FixedLossExact ==
    CritDone =>
        \A n \in CritToks :
            (cg.target[n] \notin {0, cg.pad} /\ cg.align[n] = 0) =>
                cg.res[n].loss = NegLog(PFixed(n, cg.target[n]))

\* C14 amended: for such a token the loss is -log(p + eps), p being the
\* fixed-vocabulary probability at the target id; nothing of the copy
\* segment is added.
C14_FixedLossEps ==
    CritDone =>
        \A n \in CritToks :
            (cg.target[n] \notin {0, cg.pad} /\ cg.align[n] = 0) =>
                cg.res[n].loss = [kind |-> "neglog", of |-> PFixed(n, cg.target[n]) + Eps]

\* two such tokens, one with all scores zero (the loss is -log(eps)) and one
\* with probabilities that are not zero
C14_Witness ==
    /\ CritDone /\ Len(cg.target) = 2
    /\ \A n \in CritToks : cg.target[n] \notin {0, cg.pad} /\ cg.align[n] = 0
    /\ PFixed(1, cg.target[1]) = 0 /\ cg.res[1].loss.of = Eps
    /\ PFixed(2, cg.target[2]) # 0 /\ PCopy(2) # 0
    /\ cg.res[2].loss.of = PFixed(2, cg.target[2]) + Eps

\* C15: a position whose target is the pad id contributes exactly zero to
\* the loss, whatever its scores and its align, with force_copy on and off.
C15_PadIsZero ==
    CritDone =>
        \A n \in CritToks :
            cg.target[n] = cg.pad => cg.res[n].loss = [kind |-> "zero", of |-> 0]

\* a pad position with scores and align not zero next to a pad position
\* with all scores zero
C15_Witness ==
    /\ CritDone /\ Len(cg.target) = 2
    /\ cg.target = <<cg.pad, cg.pad>>
    /\ cg.align[1] # 0 /\ PCopy(1) # 0 /\ cg.res[1].mass > Eps
    /\ cg.align[2] = 0 /\ cg.res[2].mass = Eps
    /\ cg.res[1].loss.kind = "zero" /\ cg.res[2].loss.kind = "zero"

-----------------------------------------------------------------------------
(* CopyGenerator.forward, from the softmax distribution prob and the switch *)
(* p_copy on.  Row n (from 1) of the [batch*tlen] tensors is the position   *)
(* t = (n-1) div batch of the example b = (n-1) mod batch.  Probabilities   *)
(* are whole numbers of units of 1/One; a product of two probabilities is   *)
(* in units of 1/(One*One).                                                 *)

\* the number that stands for the probability 1
One == 4

RECURSIVE SumTo(_, _)
\* f[1] + ... + f[n]
SumTo(f, n) == IF n = 0 THEN 0 ELSE f[n] + SumTo(f, n - 1)

\* the longest sequence of the batch (0 for none): max([t.size(0) for t in data])
MaxSize(data) ==
    CHOOSE n \in 0..Len(WordOrder) :
        /\ \A i \in 1..Len(data) : Len(data[i]) <= n
        /\ \E i \in 1..Len(data) : Len(data[i]) = n

\* the largest id of the batch: max([t.max() for t in data])
MaxId(data) ==
    CHOOSE v \in 0..Len(WordOrder) :
        /\ \A i \in 1..Len(data) : \A j \in 1..Len(data[i]) : data[i][j] <= v
        /\ \E i \in 1..Len(data) : \E j \in 1..Len(data[i]) : data[i][j] = v

\* make_src: the indicator [src_size, batch, src_vocab_size] of the dynamic
\* id of every source position of every example of the batch
make_src(data) ==
    [s \in 1..MaxSize(data) |->
       [i \in 1..Len(data) |->
          [v \in 0..MaxId(data) |->
             IF s <= Len(data[i]) /\ data[i][s] = v THEN 1 ELSE 0]]]

\* the example of row n taken as if the rows were grouped by example
ExampleOfRowGrouped(n, batch, tlen) == ((n - 1) \div tlen) + 1

\* "mul_attn.view(-1, batch, slen).transpose(0, 1)": the example of row n
ExampleOfRow(n, batch, tlen) == ((n - 1) % batch) + 1

\* what the fixed-vocabulary distribution is multiplied by
FixedScale(align, p_copy, training) ==
    IF training THEN Eq0(align) ELSE One - p_copy

\* the training scale of the attention without the pointer gate
AttnScaleNoPtrs(align, p_copy, ptr, training) ==
    IF training THEN Ne0(align) ELSE p_copy

\* what the attention weight of a source position is multiplied by; ptr is
\* the pointer tensor's entry for the row and the source position
AttnScale(align, p_copy, ptr, training) ==
    IF training THEN Ne0(align) * ptr ELSE p_copy

\* "torch.bmm(mul_attn..., src_map.transpose(0, 1))" for one row and one
\* dynamic id v: the sum over the source positions
CopyProb(mul_attn, src_map, b, v) ==
    SumTo([s \in 1..Len(src_map) |-> mul_attn[s] * src_map[s][b][v]], Len(src_map))

\* the row "torch.cat([out_prob, copy_prob], 1)" of row n
ForwardRow(c, n) ==
    LET vocab == Len(c.prob[n])
        cvocab == Cardinality(DOMAIN c.src_map[1][1])
        b == ExampleOfRow(n, c.batch, c.tlen)
        mul_attn == [s \in 1..Len(c.src_map) |->
                       c.attn[n][s] * AttnScale(c.align[n], c.p_copy[n], c.ptrs[n][s],
                                                c.training)]
    IN  [j \in 0..(vocab + cvocab - 1) |->
           IF j < vocab
           THEN c.prob[n][j + 1] * FixedScale(c.align[n], c.p_copy[n], c.training)
           ELSE CopyProb(mul_attn, c.src_map, b, j - vocab)]

\* forward(hidden, attn, src_map, align, ptrs), c holding the arguments
Forward(c) == [n \in 1..(c.batch * c.tlen) |-> ForwardRow(c, n)]

-----------------------------------------------------------------------------
(* Calls of forward on small batches *)

\* most examples of a batch, most target positions
MaxFwdBatch == 2
MaxFwdLen == 2

\* the dynamic ids of the source tokens of an example (src_map before
\* make_src), of one or two source positions
SrcData == { <<2>>, <<2, 3>>, <<3, 2>>, <<2, 2>> }

\* what a row is made of: the softmax distribution (pad at 0), the
\* attention over two source positions, the switch, align, and the pointer
\* tensor's row
RowKinds == <<
    [prob |-> <<1, 0, One - 1>>, attn |-> <<One, 0>>, p_copy |-> 1,
     align |-> 0, ptrs |-> <<0, 0>>],
    [prob |-> <<One, 0, 0>>, attn |-> <<1, One - 1>>, p_copy |-> 0,
     align |-> 2, ptrs |-> <<0, 1>>],
    [prob |-> <<2, 0, One - 2>>, attn |-> <<2, One - 2>>, p_copy |-> One,
     align |-> 3, ptrs |-> <<1, 1>>],
    [prob |-> <<1, 0, One - 1>>, attn |-> <<0, One>>, p_copy |-> One - 1,
     align |-> 2, ptrs |-> <<1, 0>>],
    [prob |-> <<0, 0, One>>, attn |-> <<One - 1, 1>>, p_copy |-> 2,
     align |-> 0, ptrs |-> <<1, 1>>] >>

\* the kind of row n: the kinds in turn, from a first kind on, by a stride
KindOfRow(n, first, stride) ==
    RowKinds[((first + (n - 1) * stride) % Len(RowKinds)) + 1]

InitForward ==
    /\ \E batch \in 1..MaxFwdBatch, tlen \in 1..MaxFwdLen, training \in BOOLEAN,
          first \in 0..(Len(RowKinds) - 1), stride \in {1, 2} :
          \E data \in SeqsOfLen(SrcData, batch) :
             LET k(n) == KindOfRow(n, first, stride)
                 rows == 1..(batch * tlen)
                 slen == MaxSize(data)
             IN  cg = [op |-> "forward", batch |-> batch, tlen |-> tlen,
                       training |-> training, data |-> data,
                       src_map |-> make_src(data),
                       prob |-> [n \in rows |-> k(n).prob],
                       attn |-> [n \in rows |-> SubSeq(k(n).attn, 1, slen)],
                       p_copy |-> [n \in rows |-> k(n).p_copy],
                       align |-> [n \in rows |-> k(n).align],
                       ptrs |-> [n \in rows |-> SubSeq(k(n).ptrs, 1, slen)],
                       res |-> <<>>, done |-> FALSE]
    /\ corpus = <<>> /\ rd = <<>> /\ sides = <<>> /\ out = <<>> /\ shard = <<>>
    /\ phase = "idle" /\ err = ""
    /\ cfg = NoCfg /\ ds = NoDataset /\ dyn = NoDyn /\ cc = NoCollapse /\ fld = NoCall /\ it = NoCall

\* self.generator(hidden, attn, src_map, align, ptrs) is called
CallForward ==
    /\ cg # NoCall
    /\ cg.op = "forward"
    /\ ~cg.done
    /\ cg' = [cg EXCEPT !.res = Forward(cg), !.done = TRUE]
    /\ UNCHANGED <<corpus, rd, sides, phase, err, out, shard, cfg, ds, dyn, cc, fld, it>>

NextForward == CallForward

SpecForward == InitForward /\ [][NextForward]_vars

-----------------------------------------------------------------------------
(* Properties of forward *)

FwdDone == cg # NoCall /\ cg.op = "forward" /\ cg.done

FwdRows == 1..(cg.batch * cg.tlen)

\* the size of the fixed vocabulary, the number of dynamic ids
FwdVocab == Len(cg.prob[1])
FwdCVocab == Cardinality(DOMAIN cg.src_map[1][1])

\* the source tokens (dynamic ids) of the example row n belongs to
RowData(n) == cg.data[((n - 1) % cg.batch) + 1]

\* the attention mass of row n on the source positions that satisfy marked
\* and hold the dynamic id v
MassOn(n, v, marked(_)) ==
    SumTo([s \in 1..Len(cg.attn[n]) |->
             IF s <= Len(RowData(n)) /\ RowData(n)[s] = v /\ marked(s)
             THEN cg.attn[n][s] ELSE 0],
          Len(cg.attn[n]))

\* the sum of the extended row n
RowSum(n) ==
    SumTo([j \in 1..(FwdVocab + FwdCVocab) |-> cg.res[n][j - 1]], FwdVocab + FwdCVocab)

C17_InferenceMix ==
    (FwdDone /\ ~cg.training) =>
        \A n \in FwdRows :
            LET any(s) == TRUE
                covered == SumTo([s \in 1..Len(cg.attn[n]) |->
                                    IF s <= Len(RowData(n)) THEN cg.attn[n][s] ELSE 0],
                                 Len(cg.attn[n]))
            IN  /\ DOMAIN cg.res[n] = 0..(FwdVocab + FwdCVocab - 1)
                /\ \A j \in 0..(FwdVocab - 1) :
                      cg.res[n][j] = cg.prob[n][j + 1] * (One - cg.p_copy[n])
                /\ \A v \in 0..(FwdCVocab - 1) :
                      cg.res[n][FwdVocab + v] = cg.p_copy[n] * MassOn(n, v, any)
                /\ covered = One => RowSum(n) = One * One
                /\ \A s \in 1..Len(RowData(n)) :
                      cg.attn[n][s] = One =>
                          \A v \in 0..(FwdCVocab - 1) :
                              cg.res[n][FwdVocab + v] =
                                  IF v = RowData(n)[s] THEN cg.p_copy[n] * One ELSE 0

\* an inference batch of two examples with different source tokens and two
\* positions: a row of the second example, whose two source positions hold
\* the same dynamic id, gets the attention of both on that id; another row
\* has one-hot attention
C17_Witness ==
    /\ FwdDone /\ ~cg.training /\ cg.batch = 2 /\ cg.tlen = 2
    /\ cg.data = << <<2, 3>>, <<2, 2>> >>
    /\ \E n \in {2, 4} :
          /\ cg.attn[n] = <<One - 1, 1>> /\ cg.p_copy[n] = 2
          /\ cg.res[n][FwdVocab + 2] = 2 * One
          /\ cg.res[n][FwdVocab + 3] = 0
          /\ RowSum(n) = One * One
    /\ \E n \in {1, 3} :
          /\ cg.attn[n] = <<0, One>> /\ cg.p_copy[n] = One - 1
          /\ cg.res[n][FwdVocab + 3] = (One - 1) * One

-----------------------------------------------------------------------------
(* BoxField.pad and BoxCharField.pad (BoxField.py)                          *)
(*                                                                          *)
(* A field is a record of the attributes pad reads.  An attribute that is   *)
(* None or a value (init_token, eos_token, fix_length) is a sequence of no  *)
(* or one element, so that ([] if self.init_token is None else              *)
(* [self.init_token]) is the attribute itself.                              *)

\* Python's clipping of a slice bound i on a sequence of n elements
PyIndex(i, n) ==
    IF i < 0 THEN (IF n + i < 0 THEN 0 ELSE n + i)
             ELSE (IF i > n THEN n ELSE i)

\* x[:m]
SliceTo(x, m) == SubSeq(x, 1, PyIndex(m, Len(x)))

\* x[m:]
SliceFrom(x, m) == SubSeq(x, PyIndex(m, Len(x)) + 1, Len(x))

\* max(...) over a non-empty set of integers
MaxOf(S) == CHOOSE m \in S : \A k \in S : k <= m

\* [token] * n (nothing when n <= 0)
Times(token, n) == [i \in 1..n |-> token]

\* (self.init_token, self.eos_token).count(None)
CountNone(f) ==
    (IF f.init_token = <<>> THEN 1 ELSE 0) + (IF f.eos_token = <<>> THEN 1 ELSE 0)

\* max_len: the longest example of the batch, or fix_length less the
\* boundary tokens that are configured
MaxLenBothBoundaries(f, minibatch) ==
    IF f.fix_length = <<>>
    THEN MaxOf({Len(minibatch[i]) : i \in DOMAIN minibatch})
    ELSE f.fix_length[1] - 2

MaxLen(f, minibatch) ==
    IF f.fix_length = <<>>
    THEN MaxOf({Len(minibatch[i]) : i \in DOMAIN minibatch})
    ELSE f.fix_length[1] + CountNone(f) - 2

\* max(0, max_len - len(x)): the number of pad units of an example
PadCount(x, max_len) == IF max_len - Len(x) > 0 THEN max_len - Len(x) ELSE 0

\* the units BoxField.pad keeps of an example: list(x[:max_len]); the word
\* field has no truncate_first (BoxField.__init__ takes none, pad reads none)
KeptWords(f, x, max_len) == SliceTo(x, max_len)

\* one row of BoxField.pad
WordRow(f, x, max_len) ==
    IF f.pad_first
    THEN Times(f.pad_token, PadCount(x, max_len)) \o f.init_token
            \o KeptWords(f, x, max_len) \o f.eos_token
    ELSE f.init_token \o KeptWords(f, x, max_len) \o f.eos_token
            \o Times(f.pad_token, PadCount(x, max_len))

\* lengths.append(len(padded[-1]) - max(0, max_len - len(x)))
WordLengthOfRow(row, x, max_len) == Len(row)

WordLength(row, x, max_len) == Len(row) - PadCount(x, max_len)

\* what pad returns: arity 1 is the padded list alone, arity 2 the tuple
\* (padded, lengths); ok = FALSE is the ValueError of max() of nothing
PadResult(ok, arity, padded, lengths) ==
    [ok |-> ok, arity |-> arity, padded |-> padded, lengths |-> lengths]

\* BoxField.pad(minibatch)
BoxField_pad(f, minibatch) ==
    IF ~f.sequential
    THEN PadResult(TRUE, 1, minibatch, <<>>)
    ELSE IF f.fix_length = <<>> /\ minibatch = <<>>
    THEN PadResult(FALSE, 0, <<>>, <<>>)
    ELSE LET max_len == MaxLen(f, minibatch)
             padded  == [i \in DOMAIN minibatch |-> WordRow(f, minibatch[i], max_len)]
             lengths == [i \in DOMAIN minibatch |->
                            WordLength(padded[i], minibatch[i], max_len)]
         IN  IF f.include_lengths
             THEN PadResult(TRUE, 2, padded, lengths)
             ELSE PadResult(TRUE, 1, padded, <<>>)

\* BoxCharField.pad_char(element_lst, max_char_len)
pad_char(f, element_lst, max_char_len) ==
    [i \in DOMAIN element_lst |->
        element_lst[i] \o
        Times(f.pad_token,
              IF max_char_len - Len(element_lst[i]) > 0
              THEN max_char_len - Len(element_lst[i]) ELSE 0)]

\* the words BoxCharField.pad keeps of an example:
\* x[-max_len:] if self.truncate_first else x[:max_len]
KeptChars(f, x, max_len) ==
    IF f.truncate_first THEN SliceFrom(x, 0 - max_len) ELSE SliceTo(x, max_len)

\* [[token]] for a token that is configured, [] for None
TokenRow(token) == [i \in DOMAIN token |-> <<token[i]>>]

\* one example of BoxCharField.pad: its word rows
CharRows(f, x, max_len, max_char_len) ==
    LET pads == pad_char(f, Times(<<f.pad_token>>, PadCount(x, max_len)), max_char_len)
        init == pad_char(f, TokenRow(f.init_token), max_char_len)
        kept == pad_char(f, KeptChars(f, x, max_len), max_char_len)
        eos  == pad_char(f, TokenRow(f.eos_token), max_char_len)
    IN  IF f.pad_first THEN pads \o init \o kept \o eos
                       ELSE init \o kept \o eos \o pads

\* the lengths of one example of BoxCharField.pad, row by row
CharLengths(f, x, max_len) ==
    LET zeros == Times(0, PadCount(x, max_len))
        init  == Times(1, Len(f.init_token))
        kept  == [i \in DOMAIN KeptChars(f, x, max_len) |->
                     Len(KeptChars(f, x, max_len)[i])]
        eos   == Times(1, Len(f.eos_token))
    IN  IF f.pad_first THEN zeros \o init \o kept \o eos
                       ELSE init \o kept \o eos \o zeros

\* BoxCharField.pad(minibatch)
BoxCharField_pad(f, minibatch) ==
    IF ~f.sequential
    THEN PadResult(TRUE, 1, minibatch, <<>>)
    ELSE IF \/ f.fix_length = <<>> /\ minibatch = <<>>
            \/ \A i \in DOMAIN minibatch : minibatch[i] = <<>>
    THEN PadResult(FALSE, 0, <<>>, <<>>)
    ELSE LET max_len == MaxLen(f, minibatch)
             max_char_len ==
                 MaxOf(UNION {{Len(minibatch[i][j]) : j \in DOMAIN minibatch[i]} :
                                 i \in DOMAIN minibatch})
             padded  == [i \in DOMAIN minibatch |->
                            CharRows(f, minibatch[i], max_len, max_char_len)]
             lengths == [i \in DOMAIN minibatch |->
                            CharLengths(f, minibatch[i], max_len)]
         IN  IF f.include_lengths
             THEN PadResult(TRUE, 2, padded, lengths)
             ELSE PadResult(TRUE, 1, padded, <<>>)

\* Bounds of the batches and fields pad is applied to
MaxWords == 3
MaxChars == 2
MaxPadBatch == 2
MaxFix == 3

\* the units of the examples
Letters == <<"a", "b", "c", "d", "e">>

\* the characters of the i-th word of an example: 1..MaxChars of them
\* (extract_text_features: tuple(each_wd.strip()))
WordChars(i) ==
    [j \in 1..(((i - 1) % MaxChars) + 1) |-> Letters[((i + j - 2) % Len(Letters)) + 1]]

\* an example of k words, for the word field and for the character field
WordExample(k) == [i \in 1..k |-> Letters[((i - 1) % Len(Letters)) + 1]]

CharExample(k) == [i \in 1..k |-> WordChars(i)]

\* the fields: get_fields declares them with the boundary tokens or with
\* none, with or without lengths; fix_length, pad_first and truncate_first
\* are the attributes pad reads besides
Fields ==
    [sequential : BOOLEAN,
     fix_length : {<<>>} \cup {<<n>> : n \in 1..MaxFix},
     init_token : {<<>>, <<BOS_WORD>>},
     eos_token : {<<>>, <<EOS_WORD>>},
     pad_token : {PAD_WORD},
     pad_first : BOOLEAN,
     truncate_first : BOOLEAN,
     include_lengths : BOOLEAN]

InitPad ==
    /\ \E kind \in {"word", "char"}, f \in Fields, n \in 1..MaxPadBatch :
          \E sizes \in [1..n -> 0..MaxWords] :
             fld = [op |-> "pad", kind |-> kind, field |-> f,
                    minibatch |-> [i \in 1..n |->
                                     IF kind = "word" THEN WordExample(sizes[i])
                                                      ELSE CharExample(sizes[i])],
                    res |-> <<>>, done |-> FALSE]
    /\ corpus = <<>> /\ rd = <<>> /\ sides = <<>> /\ out = <<>> /\ shard = <<>>
    /\ phase = "idle" /\ err = ""
    /\ cfg = NoCfg /\ ds = NoDataset /\ dyn = NoDyn /\ cc = NoCollapse /\ cg = NoCall /\ it = NoCall

\* field.pad(minibatch) is called (BoxField.process, BoxCharField.process)
CallPad ==
    /\ fld # NoCall
    /\ fld.op = "pad"
    /\ ~fld.done
    /\ fld' = [fld EXCEPT
                  !.res = IF fld.kind = "word"
                          THEN BoxField_pad(fld.field, fld.minibatch)
                          ELSE BoxCharField_pad(fld.field, fld.minibatch),
                  !.done = TRUE]
    /\ UNCHANGED <<corpus, rd, sides, phase, err, out, shard, cfg, ds, dyn, cc, cg, it>>

NextPad == CallPad

SpecPad == InitPad /\ [][NextPad]_vars

-----------------------------------------------------------------------------
(* Properties of pad *)

PadDone == fld # NoCall /\ fld.op = "pad" /\ fld.done

\* pad of a sequential field of the given kind has returned rows
Padded(kind) ==
    /\ PadDone
    /\ fld.kind = kind
    /\ fld.field.sequential
    /\ fld.res.ok

\* the number of boundary tokens the field is configured with
Boundaries(f) == Len(f.init_token) + Len(f.eos_token)

\* the longest example of the batch
Longest(minibatch) == MaxOf({Len(minibatch[i]) : i \in DOMAIN minibatch})

\* the target length: the fixed length if configured, else the longest
\* example of the batch
TargetLength(f, minibatch) ==
    IF f.fix_length = <<>> THEN Longest(minibatch) ELSE f.fix_length[1]

\* the units of a row that are not the pad token
Unpadded(f, row) == SelectSeq(row, LAMBDA u : u # f.pad_token)

\* a row is one block of pad tokens before (pad_first) or after a body
\* without pad tokens; the body is the begin token if configured, then the
\* first tokens of the example, then the end token if configured
WordRowShape(f, row, x) ==
    LET body == Unpadded(f, row)
        p    == Len(row) - Len(body)
        n    == Len(body) - Boundaries(f)
    IN  /\ row = IF f.pad_first THEN Times(f.pad_token, p) \o body
                                ELSE body \o Times(f.pad_token, p)
        /\ n >= 0
        /\ body = f.init_token \o SubSeq(x, 1, n) \o f.eos_token
        /\ n <= Len(x)

\* the recorded length of example i is the number of its kept tokens plus
\* the number of boundary tokens: the units of its row that are not pad
RecordedLengths ==
    fld.field.include_lengths =>
        /\ fld.res.arity = 2
        /\ DOMAIN fld.res.lengths = DOMAIN fld.minibatch
        /\ \A i \in DOMAIN fld.minibatch :
              fld.res.lengths[i] = Len(Unpadded(fld.field, fld.res.padded[i]))

WordRowShapes ==
    /\ DOMAIN fld.res.padded = DOMAIN fld.minibatch
    /\ \A i \in DOMAIN fld.minibatch :
          WordRowShape(fld.field, fld.res.padded[i], fld.minibatch[i])

\* C18 as stated: for a sequential word field every row of pad has the
\* length target length + number of configured boundary tokens, the target
\* length being the fixed length if configured and else the longest example;
\* the recorded length is kept tokens + boundary tokens without the pad
\* tokens; boundary tokens are next to the content and the pad tokens are
\* one block before (pad_first) or after the bounded content.
C18_RowsTargetPlusBoundaries ==
    Padded("word") =>
        /\ \A i \in DOMAIN fld.res.padded :
              Len(fld.res.padded[i]) =
                  TargetLength(fld.field, fld.minibatch) + Boundaries(fld.field)
        /\ RecordedLengths
        /\ WordRowShapes

\* C18, amended: the rows have the length of the longest example plus the
\* number of configured boundary tokens when no fixed length is configured,
\* and the fixed length itself when one is configured that is at least the
\* number of boundary tokens; the recorded length and the shape of the rows
\* are as stated, for every configuration.
C18_RowsPaddedToFixLength ==
    Padded("word") =>
        /\ \A i \in DOMAIN fld.res.padded :
              /\ fld.field.fix_length = <<>> =>
                    Len(fld.res.padded[i]) =
                        Longest(fld.minibatch) + Boundaries(fld.field)
              /\ (fld.field.fix_length # <<>>
                    /\ fld.field.fix_length[1] >= Boundaries(fld.field)) =>
                    Len(fld.res.padded[i]) = fld.field.fix_length[1]
        /\ RecordedLengths
        /\ WordRowShapes

\* a word field with both boundary tokens, padding first and a fixed length
\* of 3 pads a batch of an example of three tokens and an empty example:
\* the first keeps one token, the second gets one pad token, both rows have
\* three units, the lengths are 3 and 2
C18_Witness ==
    /\ Padded("word")
    /\ fld.field.include_lengths /\ fld.field.pad_first
    /\ fld.field.fix_length = <<3>>
    /\ fld.minibatch = << <<"a", "b", "c">>, <<>> >>
    /\ fld.res.padded = << <<BOS_WORD, "a", EOS_WORD>>,
                           <<PAD_WORD, BOS_WORD, EOS_WORD>> >>
    /\ fld.res.lengths = <<3, 2>>

\* the units left of a row of the word field when the pad tokens and the
\* boundary tokens are removed
StripWords(f, row) ==
    SelectSeq(row, LAMBDA u : /\ u # f.pad_token
                              /\ <<u>> # f.init_token
                              /\ <<u>> # f.eos_token)

\* the words left of an example of the character field when the pad units
\* are removed from every word row and then the rows of padding and of the
\* boundary tokens are removed
StripChars(f, rows) ==
    SelectSeq([j \in DOMAIN rows |-> Unpadded(f, rows[j])],
              LAMBDA w : /\ w # <<>>
                         /\ w # f.init_token
                         /\ w # f.eos_token)

\* what is left of padded example i
Stripped(i) ==
    IF fld.kind = "word" THEN StripWords(fld.field, fld.res.padded[i])
                         ELSE StripChars(fld.field, fld.res.padded[i])

\* the number of units of content a fixed length leaves room for
ContentLength(f) == f.fix_length[1] - Boundaries(f)

\* x[:n] and the last n units of x, for 0 <= n <= Len(x)
FirstUnits(x, n) == SubSeq(x, 1, n)

LastUnits(x, n) == SubSeq(x, Len(x) - n + 1, Len(x))

\* C19: for the word field and the character field, an example longer than
\* the target length keeps its last target-length units if truncate_first
\* is set and its first target-length units otherwise, whatever pad_first
\* is (the target length taken as the room the fixed length leaves for
\* content).
C19_TruncateFirstHonoured ==
    (PadDone /\ fld.field.sequential /\ fld.res.ok /\ fld.field.fix_length # <<>>) =>
        \A i \in DOMAIN fld.minibatch :
            LET x == fld.minibatch[i]
                n == ContentLength(fld.field)
            IN  (n >= 0 /\ Len(x) > n) =>
                    Stripped(i) = IF fld.field.truncate_first
                                  THEN LastUnits(x, n)
                                  ELSE FirstUnits(x, n)

\* the same for the character field alone and a target length of at least
\* one unit: there the code does as C19 says
C19_CharFieldHonours ==
    (Padded("char") /\ fld.field.fix_length # <<>>) =>
        \A i \in DOMAIN fld.minibatch :
            LET x == fld.minibatch[i]
                n == ContentLength(fld.field)
            IN  (n >= 1 /\ Len(x) > n) =>
                    Stripped(i) = IF fld.field.truncate_first
                                  THEN LastUnits(x, n)
                                  ELSE FirstUnits(x, n)

\* the word field keeps the first units whatever truncate_first is
C19_WordFieldKeepsFirst ==
    (Padded("word") /\ fld.field.fix_length # <<>>) =>
        \A i \in DOMAIN fld.minibatch :
            LET x == fld.minibatch[i]
                n == ContentLength(fld.field)
            IN  (n >= 0 /\ Len(x) > n) => Stripped(i) = FirstUnits(x, n)

\* C20 as stated: for any batch and any field configuration, pad and then
\* removing the pad tokens and the boundary tokens from each row gives back
\* the token sequence of each example, for the word field and, at both
\* nesting levels, for the character field.
C20_RoundTripAlways ==
    (PadDone /\ fld.field.sequential /\ fld.res.ok) =>
        /\ DOMAIN fld.res.padded = DOMAIN fld.minibatch
        /\ \A i \in DOMAIN fld.minibatch : Stripped(i) = fld.minibatch[i]

\* C20, amended: the round trip gives back every example that is not longer
\* than the room for content (any example when no fixed length is
\* configured, else one of at most fixed length less the configured
\* boundary tokens units).
C20_RoundTripWhenFits ==
    (PadDone /\ fld.field.sequential /\ fld.res.ok) =>
        /\ DOMAIN fld.res.padded = DOMAIN fld.minibatch
        /\ \A i \in DOMAIN fld.minibatch :
              (\/ fld.field.fix_length = <<>>
               \/ Len(fld.minibatch[i]) <= ContentLength(fld.field)) =>
                  Stripped(i) = fld.minibatch[i]

\* a character field with both boundary tokens and no fixed length pads an
\* example of three words and one of one word: the second gets the rows of
\* the boundary tokens around its word, two rows of padding after them and
\* every row padded to two units, and stripping gives its one word back
C20_Witness ==
    /\ Padded("char")
    /\ fld.field.fix_length = <<>> /\ ~fld.field.pad_first
    /\ fld.minibatch = << << <<"a">>, <<"b", "c">>, <<"c">> >>, << <<"a">> >> >>
    /\ fld.res.padded[2] = << <<BOS_WORD, PAD_WORD>>, <<"a", PAD_WORD>>,
                              <<EOS_WORD, PAD_WORD>>, <<PAD_WORD, PAD_WORD>>,
                              <<PAD_WORD, PAD_WORD>> >>
    /\ Stripped(2) = << <<"a">> >>
    /\ Stripped(1) = fld.minibatch[1]

\* the number of units of the longest word of the batch
LongestWord(minibatch) ==
    MaxOf(UNION {{Len(minibatch[i][j]) : j \in DOMAIN minibatch[i]} :
                    i \in DOMAIN minibatch})

\* every word row of every example has as many units as the longest word
WordRowsFilled ==
    \A i \in DOMAIN fld.res.padded :
        \A j \in DOMAIN fld.res.padded[i] :
            Len(fld.res.padded[i][j]) = LongestWord(fld.minibatch)

\* the lengths describe the rows position by position: the units of the row
\* that are not padding (the characters of a word, 1 for a boundary-token
\* row, 0 for a row of padding)
CharLengthsDescribeRows ==
    fld.field.include_lengths =>
        /\ fld.res.arity = 2
        /\ DOMAIN fld.res.lengths = DOMAIN fld.res.padded
        /\ \A i \in DOMAIN fld.res.padded :
              /\ DOMAIN fld.res.lengths[i] = DOMAIN fld.res.padded[i]
              /\ \A j \in DOMAIN fld.res.padded[i] :
                    fld.res.lengths[i][j] =
                        Len(Unpadded(fld.field, fld.res.padded[i][j]))

\* C21: BoxCharField.pad returns a rectangular three-level batch: every
\* example has the same number of word rows, every word row (boundary and
\* padding rows included) has as many units as the longest word of the
\* batch, and the lengths hold per row the word's character count, 1 for a
\* boundary-token row and 0 for a padding row, in the rows' positions.
C21_Rectangular ==
    Padded("char") =>
        /\ \A i, k \in DOMAIN fld.res.padded :
              Len(fld.res.padded[i]) = Len(fld.res.padded[k])
        /\ WordRowsFilled
        /\ CharLengthsDescribeRows

\* the same where the field has no fixed length, or one that leaves room
\* for at least one word: there the batch is rectangular
C21_RectangularWithRoom ==
    (Padded("char")
       /\ (fld.field.fix_length = <<>> \/ ContentLength(fld.field) >= 1)) =>
        /\ \A i, k \in DOMAIN fld.res.padded :
              Len(fld.res.padded[i]) = Len(fld.res.padded[k])
        /\ WordRowsFilled
        /\ CharLengthsDescribeRows

-----------------------------------------------------------------------------
(* BoxField.build_vocab, numericalize and process; BoxCharField.numericalize *)
(* and process (BoxField.py)                                                 *)
(*                                                                           *)
(* A token is a record of its Python type and its strings, so that the word  *)
(* 'a', the tuple ('a',) and the integer 1 are three different tokens: a     *)
(* string [tag |-> "str", v |-> <<"a">>], a tuple of words [tag |-> "tuple", *)
(* v |-> <<"a">>], an integer [tag |-> "int", v |-> <<"1">>].                *)

Str(w) == [tag |-> "str", v |-> <<w>>]

Tup(ws) == [tag |-> "tuple", v |-> ws]

Num(w) == [tag |-> "int", v |-> <<w>>]

\* the order of two sequences of strings: Python's order of tuples
RECURSIVE LexLess(_, _)
LexLess(a, b) ==
    IF b = <<>> THEN FALSE
    ELSE IF a = <<>> THEN TRUE
    ELSE IF Head(a) # Head(b) THEN Rank(Head(a)) < Rank(Head(b))
    ELSE LexLess(Tail(a), Tail(b))

\* sorted(counter.items(), key=lambda tup: tup[0]) of the vocabulary: the
\* order of two tokens of one type
TokenLess(t, u) == t.tag = u.tag /\ LexLess(t.v, u.v)

\* the elements a source value contributes to the counter:
\* "if not self.sequential: x = [x]", then counter.update(x)
Counted(f, x) == IF f.sequential THEN x ELSE <<Tup([i \in DOMAIN x |-> x[i].v[1]])>>

\* all counted elements of the sources of one call, in order
RECURSIVE Flat(_)
Flat(ss) == IF ss = <<>> THEN <<>> ELSE Head(ss) \o Flat(Tail(ss))

CountedOf(f, sources) ==
    Flat([k \in DOMAIN sources |->
            Flat([e \in DOMAIN sources[k] |-> Counted(f, sources[k][e])])])

\* counter = Counter() and its updates: the counter of one call as the
\* sequence of the elements it counted, starting from nothing
CounterKept(f, vocab, sources) ==
    (IF vocab = <<>> THEN <<>> ELSE vocab[1].counted) \o CountedOf(f, sources)

CounterOf(f, vocab, sources) == CountedOf(f, sources)

\* list(OrderedDict.fromkeys(tok for tok in [...] if tok is not None)):
\* each token once, at its first place
RECURSIVE FromKeys(_)
FromKeys(toks) ==
    IF toks = <<>> THEN <<>>
    ELSE LET rest == FromKeys(SubSeq(toks, 1, Len(toks) - 1))
             last == toks[Len(toks)]
         IN  IF \E i \in DOMAIN rest : rest[i] = last THEN rest
             ELSE Append(rest, last)

SpecialsOf(f) ==
    FromKeys(f.unk_token \o <<f.pad_token>> \o f.init_token \o f.eos_token)

\* self.vocab_cls(counter, specials=specials): the specials, then the other
\* counted tokens by decreasing count, ties in the order of the tokens; the
\* vocabulary keeps the counter (freqs)
VocabOf(counted, specials) ==
    LET spec == {specials[i] : i \in DOMAIN specials}
        toks == {counted[i] : i \in DOMAIN counted} \ spec
        n(t) == Cardinality({i \in DOMAIN counted : counted[i] = t})
        before(u, w) == \/ n(u) > n(w)
                        \/ n(u) = n(w) /\ TokenLess(u, w)
        place(w) == Cardinality({u \in toks : before(u, w)}) + 1
    IN  [itos |-> specials \o
                    [i \in 1..Cardinality(toks) |-> CHOOSE w \in toks : place(w) = i],
         counted |-> counted]

\* BoxField.build_vocab(*args): the value of self.vocab afterwards
build_vocab(f, vocab, sources) ==
    <<VocabOf(CounterOf(f, vocab, sources), SpecialsOf(f))>>

\* what numericalize returns or raises: raised = "" is a return, of the
\* tensor alone (arity 1) or of the tuple (tensor, lengths) (arity 2)
NumResult(raised, arity, data, lengths) ==
    [raised |-> raised, arity |-> arity, data |-> data, lengths |-> lengths]

\* the rows of a nested list are of one length: self.tensor_type(arr) needs it
Rectangular(rows) == \A i, k \in DOMAIN rows : Len(rows[i]) = Len(rows[k])

\* arr.t_(): the transpose of a rectangular two-level list
Transposed(rows) ==
    IF rows = <<>> THEN <<>>
    ELSE [j \in 1..Len(rows[1]) |-> [i \in DOMAIN rows |-> rows[i][j]]]

\* the number a token is for a field without vocabulary: the token itself if
\* it is an integer (-1 stands for a string, which no tensor takes)
NumberOf(x) == IF x.tag = "int" THEN IntOf(x.v[1]) ELSE -1

\* the id of a unit: self.vocab.stoi[x], or the number itself
IdOf(f, vocab, x) ==
    IF f.use_vocab THEN Stoi(vocab[1].itos, x) ELSE NumberOf(x)

\* BoxField.numericalize(arr): arr is what pad returned
BoxField_numericalize(f, vocab, arr) ==
    IF f.include_lengths /\ arr.arity # 2
    THEN NumResult("ValueError: not a tuple", 0, <<>>, <<>>)
    ELSE LET ids == [i \in DOMAIN arr.padded |->
                        [j \in DOMAIN arr.padded[i] |->
                            IdOf(f, vocab, arr.padded[i][j])]]
         IN  IF \/ ~Rectangular(ids)
                \/ \E i \in DOMAIN ids : \E j \in DOMAIN ids[i] : ids[i][j] < 0
             THEN NumResult("tensor_type: not a tensor", 0, <<>>, <<>>)
             ELSE LET data == IF f.batch_first THEN ids ELSE Transposed(ids)
                  IN  IF f.include_lengths
                      THEN NumResult("", 2, data, arr.lengths)
                      ELSE NumResult("", 1, data, <<>>)

\* BoxCharField.numericalize(arr)
BoxCharField_numericalize(f, vocab, arr) ==
    IF f.include_lengths /\ arr.arity # 2
    THEN NumResult("ValueError: not a tuple", 0, <<>>, <<>>)
    ELSE IF f.use_vocab /\ ~f.sequential
    THEN NumResult("ValueError: non sequential char field", 0, <<>>, <<>>)
    ELSE LET ids == [i \in DOMAIN arr.padded |->
                        [j \in DOMAIN arr.padded[i] |->
                            [k \in DOMAIN arr.padded[i][j] |->
                                IdOf(f, vocab, arr.padded[i][j][k])]]]
             flat == Flat(ids)
         IN  IF \/ ~Rectangular(ids) \/ ~Rectangular(flat) \/ flat = <<>>
                \/ \E i \in DOMAIN flat : \E j \in DOMAIN flat[i] : flat[i][j] < 0
             THEN NumResult("tensor_type: not a tensor of 3 dimensions", 0, <<>>, <<>>)
             ELSE IF arr.arity # 2
             THEN NumResult("UnboundLocalError: lengths", 0, <<>>, <<>>)
             ELSE LET data == IF f.sequential /\ ~f.batch_first
                              THEN Transposed(flat) ELSE flat
                  IN  IF f.include_lengths
                      THEN NumResult("", 2, data, Flat(arr.lengths))
                      ELSE NumResult("", 1, data, <<>>)

\* what process returns or raises: the padded batch as pad returned it
\* (numericalized = FALSE) or the result of numericalize
ProcessResult(raised, numericalized, padded, num) ==
    [raised |-> raised, numericalized |-> numericalized,
     padded |-> padded, num |-> num]

NoNum == NumResult("", 0, <<>>, <<>>)

\* process(batch) of a field of the given kind; vocab = <<>> is a field
\* without the attribute vocab
processAlways(kind, f, vocab, batch) ==
    LET padded == IF kind = "word" THEN BoxField_pad(f, batch)
                                   ELSE BoxCharField_pad(f, batch)
    IN  IF ~padded.ok
        THEN ProcessResult("ValueError: max() arg is an empty sequence",
                           FALSE, padded, NoNum)
        ELSE IF f.use_vocab /\ vocab = <<>>
        THEN ProcessResult("AttributeError: vocab", FALSE, padded, NoNum)
        ELSE LET num == IF kind = "word"
                        THEN BoxField_numericalize(f, vocab, padded)
                        ELSE BoxCharField_numericalize(f, vocab, padded)
             IN  ProcessResult(num.raised, TRUE, padded, num)

process(kind, f, vocab, batch) ==
    LET padded == IF kind = "word" THEN BoxField_pad(f, batch)
                                   ELSE BoxCharField_pad(f, batch)
    IN  IF ~padded.ok
        THEN ProcessResult("ValueError: max() arg is an empty sequence",
                           FALSE, padded, NoNum)
        ELSE IF f.use_vocab /\ vocab = <<>>
        THEN ProcessResult("", FALSE, padded, NoNum)
        ELSE LET num == IF kind = "word"
                        THEN BoxField_numericalize(f, vocab, padded)
                        ELSE BoxCharField_numericalize(f, vocab, padded)
             IN  ProcessResult(num.raised, TRUE, padded, num)

\* Bounds of the calls made on a field
MaxBuilds == 2
MaxSources == 2

\* a unit of the data of a field: a string for a field with a vocabulary, an
\* integer for one without ("a", "b", "c" stand for 1, 2, 3)
Unit(use_vocab, w) ==
    IF use_vocab THEN Str(w)
    ELSE Num(CASE w = "a" -> "1" [] w = "b" -> "2" [] w = "c" -> "3"
               [] w = "d" -> "3" [] w = UNK_WORD -> "1"
               [] w = PAD_WORD -> "1" [] w = BOS_WORD -> "2" [] w = EOS_WORD -> "3")

\* the examples: the words of a line for the word field, the characters of
\* each word for the character field (the word "b" has two characters)
ValueOf(kind, use_vocab, ws) ==
    IF kind = "word"
    THEN [i \in DOMAIN ws |-> Unit(use_vocab, ws[i])]
    ELSE [i \in DOMAIN ws |->
            IF ws[i] = "b" THEN <<Unit(use_vocab, "b"), Unit(use_vocab, "c")>>
                           ELSE <<Unit(use_vocab, ws[i])>>]

\* the lines of the two data sources and of a batch from elsewhere
SourceLines == << << <<"a", "b">>, <<"a">> >>, << <<"b", "b", "c">> >> >>

OtherLines == << <<"d">>, <<"a", "d">> >>

ExamplesOf(kind, use_vocab, lines) ==
    [e \in DOMAIN lines |-> ValueOf(kind, use_vocab, lines[e])]

\* the fields of get_fields and their variants: with or without vocabulary,
\* sequential or not, with the boundary tokens or without, with one token
\* for both boundaries
VocabFields ==
    {[sequential |-> s, use_vocab |-> u, include_lengths |-> l,
      batch_first |-> FALSE,
      fix_length |-> <<>>, pad_first |-> FALSE, truncate_first |-> FALSE,
      unk_token |-> <<Unit(u, UNK_WORD)>>,
      pad_token |-> Unit(u, PAD_WORD),
      init_token |-> IF i = "" THEN <<>> ELSE <<Unit(u, i)>>,
      eos_token |-> IF e = "" THEN <<>> ELSE <<Unit(u, e)>>] :
        s \in BOOLEAN, u \in BOOLEAN, l \in BOOLEAN,
        i \in {"", BOS_WORD}, e \in {"", EOS_WORD, BOS_WORD}}

\* the vocabulary of a character field, built elsewhere over the characters
GivenVocab(f) ==
    <<VocabOf(<<Str("a"), Str("b"), Str("c"), Str("a")>>, SpecialsOf(f))>>

NoFieldCall == [name |-> "", arg |-> <<>>, res |-> <<>>]

InitField ==
    /\ \E kind \in {"word", "char"}, f \in VocabFields :
          \E vocab \in {<<>>} \cup
                       (IF kind = "char" /\ f.use_vocab THEN {GivenVocab(f)} ELSE {}) :
             fld = [op |-> "field", kind |-> kind, field |-> f, vocab |-> vocab,
                    built |-> <<>>, call |-> NoFieldCall]
    /\ corpus = <<>> /\ rd = <<>> /\ sides = <<>> /\ out = <<>> /\ shard = <<>>
    /\ phase = "idle" /\ err = ""
    /\ cfg = NoCfg /\ ds = NoDataset /\ dyn = NoDyn /\ cc = NoCollapse /\ cg = NoCall /\ it = NoCall

\* field.build_vocab(*sources) is called on a word field
BuildVocab ==
    /\ fld # NoCall
    /\ fld.op = "field"
    /\ fld.kind = "word"
    /\ Len(fld.built) < MaxBuilds
    /\ \E n \in 1..MaxSources :
          \E pick \in [1..n -> DOMAIN SourceLines] :
             LET sources == [k \in 1..n |->
                               ExamplesOf(fld.kind, fld.field.use_vocab,
                                          SourceLines[pick[k]])]
                 vocab   == build_vocab(fld.field, fld.vocab, sources)
             IN  fld' = [fld EXCEPT
                           !.vocab = vocab,
                           !.built = Append(@, [sources |-> sources, vocab |-> vocab]),
                           !.call = [name |-> "build_vocab", arg |-> sources,
                                     res |-> <<>>]]
    /\ UNCHANGED <<corpus, rd, sides, phase, err, out, shard, cfg, ds, dyn, cc, cg, it>>

\* field.process(batch) is called, on a batch that is a data source or comes
\* from elsewhere
Process ==
    /\ fld # NoCall
    /\ fld.op = "field"
    /\ \E lines \in {SourceLines[k] : k \in DOMAIN SourceLines} \cup {OtherLines} :
          LET batch == ExamplesOf(fld.kind, fld.field.use_vocab, lines)
          IN  fld' = [fld EXCEPT
                        !.call = [name |-> "process", arg |-> batch,
                                  res |-> process(fld.kind, fld.field,
                                                  fld.vocab, batch)]]
    /\ UNCHANGED <<corpus, rd, sides, phase, err, out, shard, cfg, ds, dyn, cc, cg, it>>

NextField == BuildVocab \/ Process

SpecField == InitField /\ [][NextField]_vars

-----------------------------------------------------------------------------
(* Properties of build_vocab, numericalize and process *)

FieldCalled(name) == fld # NoCall /\ fld.op = "field" /\ fld.call.name = name

\* the reserved tokens of a field in the order unknown, pad, begin, end,
\* without those that are None
Reserved(f) == f.unk_token \o <<f.pad_token>> \o f.init_token \o f.eos_token

\* the places of Reserved(f) that hold the first occurrence of their token
FirstPlaces(f) ==
    {i \in DOMAIN Reserved(f) : \A j \in 1..(i - 1) : Reserved(f)[j] # Reserved(f)[i]}

\* a vocabulary begins with the reserved tokens, each once, in their order
ReservedFirst(f, itos) ==
    /\ Len(itos) >= Cardinality(FirstPlaces(f))
    /\ \A i \in FirstPlaces(f) :
          itos[Cardinality({j \in FirstPlaces(f) : j <= i})] = Reserved(f)[i]

\* the number of elements the sources of a call hold for the counter: the
\* tokens of a sequential field, the values of a non-sequential one
Elements(f, sources) ==
    IF f.sequential
    THEN SumLen([k \in DOMAIN sources |-> Flat(sources[k])])
    ELSE SumLen(sources)

\* C22: build_vocab gives the vocabulary the reserved tokens in the order
\* unknown, pad, begin, end, without the None ones and each once; every call
\* replaces the vocabulary by one computed from the sources of that call
\* alone: two calls on the same sources give the same ids and counts, and
\* no count of an earlier call is carried over.
C22_BuildVocabRebuilds ==
    (fld # NoCall /\ fld.op = "field") =>
        /\ \A i \in DOMAIN fld.built :
              /\ ReservedFirst(fld.field, fld.built[i].vocab[1].itos)
              /\ Len(fld.built[i].vocab[1].counted) =
                     Elements(fld.field, fld.built[i].sources)
              /\ \A k \in DOMAIN fld.built :
                    fld.built[i].sources = fld.built[k].sources =>
                        fld.built[i].vocab = fld.built[k].vocab
        /\ fld.built # <<>> => fld.vocab = fld.built[Len(fld.built)].vocab

\* a sequential field whose end token is its begin token has built its
\* vocabulary over both sources and then over the first alone: the
\* vocabulary is the three reserved tokens, then "a" (twice in the source)
\* and "b", and nothing of the second source
C22_Witness ==
    /\ FieldCalled("build_vocab")
    /\ fld.field.sequential /\ fld.field.use_vocab
    /\ fld.field.init_token = <<Str(BOS_WORD)>>
    /\ fld.field.eos_token = <<Str(BOS_WORD)>>
    /\ Len(fld.built) = 2
    /\ Len(fld.built[1].sources) = 2
    /\ Len(fld.built[1].vocab[1].itos) = 6
    /\ fld.vocab[1].itos = <<Str(UNK_WORD), Str(PAD_WORD), Str(BOS_WORD),
                             Str("a"), Str("b")>>

\* what pad returns for the batch of the last call of process
PadOfCall ==
    IF fld.kind = "word" THEN BoxField_pad(fld.field, fld.call.arg)
                         ELSE BoxCharField_pad(fld.field, fld.call.arg)

\* what numericalize returns or raises for that padded batch
NumOfCall ==
    IF fld.kind = "word"
    THEN BoxField_numericalize(fld.field, fld.vocab, PadOfCall)
    ELSE BoxCharField_numericalize(fld.field, fld.vocab, PadOfCall)

\* C23: process on a field that uses a vocabulary which was never built
\* raises nothing and returns what pad returns for the batch, not
\* numericalized; with the vocabulary, or on a field that uses none, it
\* returns (or raises) what numericalize does on the padded batch.
C23_ProcessWithoutVocab ==
    (FieldCalled("process") /\ PadOfCall.ok) =>
        IF fld.field.use_vocab /\ fld.vocab = <<>>
        THEN /\ fld.call.res.raised = ""
             /\ ~fld.call.res.numericalized
             /\ fld.call.res.padded = PadOfCall
        ELSE /\ fld.call.res.numericalized
             /\ fld.call.res.raised = NumOfCall.raised
             /\ fld.call.res.num = NumOfCall

\* a word field with both boundary tokens and lengths, whose vocabulary was
\* never built, has processed the batch of the first source: the result is
\* the padded rows of strings with their lengths
C23_Witness ==
    /\ FieldCalled("process")
    /\ fld.kind = "word" /\ fld.field.use_vocab /\ fld.field.sequential
    /\ fld.vocab = <<>> /\ fld.built = <<>>
    /\ fld.field.include_lengths
    /\ fld.call.res.raised = ""
    /\ fld.call.res.padded.padded =
          << <<Str(BOS_WORD), Str("a"), Str("b"), Str(EOS_WORD)>>,
             <<Str(BOS_WORD), Str("a"), Str(EOS_WORD), Str(PAD_WORD)>> >>
    /\ fld.call.res.padded.lengths = <<4, 3>>

\* a character field with its vocabulary and lengths has processed the same
\* batch: the result is the tensor of the ids, one column per word row
C23_WitnessNumericalized ==
    /\ FieldCalled("process")
    /\ fld.kind = "char" /\ fld.vocab # <<>>
    /\ fld.field.include_lengths /\ fld.field.sequential
    /\ fld.field.init_token = <<>> /\ fld.field.eos_token = <<>>
    /\ fld.call.res.raised = "" /\ fld.call.res.numericalized
    /\ fld.call.res.num.arity = 2
    /\ fld.call.res.num.lengths = <<1, 2, 1, 0>>
    /\ Len(fld.call.res.num.data) = 2

\* the last call numericalized, without error, a batch that is one of the
\* sources the vocabulary of the word field was built from
NumericalizedOwnSource ==
    /\ FieldCalled("process")
    /\ fld.kind = "word" /\ fld.field.use_vocab
    /\ fld.built # <<>>
    /\ \E k \in DOMAIN fld.built[Len(fld.built)].sources :
          fld.built[Len(fld.built)].sources[k] = fld.call.arg
    /\ fld.call.res.numericalized /\ fld.call.res.raised = ""

\* no id of the tensor is the unknown id 0
NoUnknownId ==
    \A i \in DOMAIN fld.call.res.num.data :
        \A j \in DOMAIN fld.call.res.num.data[i] :
            fld.call.res.num.data[i][j] # 0

\* C29: after build_vocab over a collection of examples, without cut-off,
\* numericalizing an example of the collection gives every token an id
\* other than the unknown id, for sequential and for non-sequential fields.
C29_OwnTokensKnown == NumericalizedOwnSource => NoUnknownId

\* the same for sequential fields alone: there it holds
C29_SequentialTokensKnown ==
    (NumericalizedOwnSource /\ fld.field.sequential) => NoUnknownId

\* for a non-sequential field every token of the example gets the unknown id
C29_NonSequentialAllUnknown ==
    (NumericalizedOwnSource /\ ~fld.field.sequential) =>
        \A i \in DOMAIN fld.call.res.num.data :
            \A j \in DOMAIN fld.call.res.num.data[i] :
                fld.call.res.num.data[i][j] = 0

-----------------------------------------------------------------------------
(* extract_text_features on one line, and the reader's unpacking of it *)

\* Bound of the tokens of the line
MaxLineTokens == 3

\* tokens as token.split(delimiter) gives them: a word alone, a word with
\* one or two feature values, and tokens whose word is empty
LineTokens ==
    { <<"a">>, <<"N/A">>, <<"a", "1">>, <<"b", "2">>, <<"", "1">>, <<"", "1", "2">> }

InitExtract ==
    /\ \E tokens \in SeqsUpTo(LineTokens, MaxLineTokens) :
          dyn = [op |-> "extract_text_features", tokens |-> tokens,
                 res |-> <<>>, rec |-> <<>>, done |-> FALSE]
    /\ corpus = <<>> /\ rd = <<>> /\ sides = <<>> /\ out = <<>> /\ shard = <<>>
    /\ phase = "idle" /\ err = ""
    /\ cfg = NoCfg /\ ds = NoDataset /\ cc = NoCollapse /\ cg = NoCall /\ fld = NoCall /\ it = NoCall

\* _example_dict_iter calls extract_text_features(line) and unpacks the result
CallExtract ==
    /\ dyn # NoDyn
    /\ dyn.op = "extract_text_features"
    /\ ~dyn.done
    /\ dyn' = [dyn EXCEPT !.res = ExtractTextFeatures(dyn.tokens),
                          !.rec = ExampleDict("src1", dyn.tokens, 0),
                          !.done = TRUE]
    /\ UNCHANGED <<corpus, rd, sides, phase, err, out, shard, cfg, ds, cc, cg, fld, it>>

NextExtract == CallExtract

SpecExtract == InitExtract /\ [][NextExtract]_vars

-----------------------------------------------------------------------------
(* Properties of extract_text_features *)

Extracted == dyn # NoDyn /\ dyn.op = "extract_text_features" /\ dyn.done

\* C24: on an empty token list extract_text_features returns four
\* components as on any other (empty words, empty features, feature count
\* -1, empty chars), and the reader that unpacks four components makes its
\* record of the empty line without error.
C24_EmptyLineFourComponents ==
    (Extracted /\ dyn.tokens = <<>>) =>
        /\ dyn.res.ok
        /\ dyn.res.arity = 4
        /\ dyn.res.words = <<>> /\ dyn.res.feats = <<>> /\ dyn.res.chars = <<>>
        /\ dyn.res.n_feats = -1
        /\ dyn.rec.ok

\* the result has one entry per token of toks in words, chars and every
\* feature column, and the words are the tokens' words
OnePerToken(res, toks) ==
    /\ res.ok /\ res.arity = 4
    /\ Len(res.words) = Len(toks)
    /\ Len(res.chars) = Len(toks)
    /\ \A i \in DOMAIN toks : res.words[i] = toks[i][1]
    /\ res.n_feats = Len(res.feats)
    /\ \A j \in DOMAIN res.feats : Len(res.feats[j]) = Len(toks)

\* C25 as stated: the inconsistent-feature-count error is raised whenever a
\* token of the line has another number of feature values than the first
\* token of the line; otherwise words, feature columns and chars have one
\* entry per input token.
C25_EveryTokenCompared ==
    (Extracted /\ dyn.tokens # <<>>) =>
        IF \E i \in DOMAIN dyn.tokens : Len(dyn.tokens[i]) # Len(dyn.tokens[1])
        THEN dyn.res.raised = "AssertionError: features"
        ELSE OnePerToken(dyn.res, dyn.tokens)

\* the tokens of the line whose word is not empty
WithWord(toks) == SelectSeq(toks, LAMBDA t : Head(t) # "")

\* C25, amended: tokens whose word is empty are dropped first; the error is
\* raised whenever a remaining token has another number of feature values
\* than the first remaining token, otherwise the result has one entry per
\* remaining token; a line none of whose tokens has a word fails with an
\* IndexError.
C25_TokensWithWordCompared ==
    (Extracted /\ dyn.tokens # <<>>) =>
        LET kept == WithWord(dyn.tokens)
        IN  IF kept = <<>> THEN dyn.res.raised = "IndexError"
            ELSE IF \E i \in DOMAIN kept : Len(kept[i]) # Len(kept[1])
            THEN dyn.res.raised = "AssertionError: features"
            ELSE OnePerToken(dyn.res, kept)

\* a line whose first token has no word and two feature values and whose
\* other tokens have a word and one feature value: no error, two words, one
\* feature column of two entries
C25_Witness ==
    /\ Extracted
    /\ dyn.tokens = << <<"", "1", "2">>, <<"a", "1">>, <<"b", "2">> >>
    /\ dyn.res.ok
    /\ dyn.res.words = <<"a", "b">>
    /\ dyn.res.feats = << <<"1", "2">> >>
    /\ dyn.res.n_feats = 1

-----------------------------------------------------------------------------
(* DatasetLazyIter over lazily_load_dataset (train.py)                      *)
(*                                                                          *)
(* The datasets are the generator lazily_load_dataset returns: loaded is    *)
(* the number of datasets it has produced.  A dataset is its number (from   *)
(* 1) and sizes[d] the number of batches its OrderedIterator gives.         *)

\* Bounds of the lazy sequence
MaxDatasets == 3
MaxDatasetBatches == 2

\* onmt.io.OrderedIterator(dataset=self.cur_dataset, ...): at its start
NewIterator(d) == <<[dataset |-> d, pos |-> 0]>>

\* where dataset_iter = (d for d in self.datasets) starts: self.datasets is
\* a generator and goes on from where the constructor left it
IterStartOver(loaded) == 0

IterStart(loaded) == loaded

\* _next_dataset_iterator(dataset_iter), the iterator being at position at of
\* the sequence: the fields of the DatasetLazyIter afterwards
next_dataset_iterator(i, at) ==
    IF at >= Len(i.sizes)
    THEN [i EXCEPT !.cur_iter = <<>>]
    ELSE [i EXCEPT !.cur_dataset = at + 1,
                   !.loaded = IF at + 1 > i.loaded THEN at + 1 ELSE i.loaded,
                   !.next = at + 1,
                   !.cur_iter = NewIterator(at + 1)]

\* DatasetLazyIter(datasets, ...): __init__ takes the first dataset
InitLazyIter ==
    /\ \E n \in 1..MaxDatasets :
          \E sizes \in [1..n -> 0..MaxDatasetBatches] :
             it = next_dataset_iterator(
                     [op |-> "DatasetLazyIter", sizes |-> sizes, loaded |-> 0,
                      next |-> 0, cur_dataset |-> 0, cur_iter |-> <<>>,
                      yielded |-> <<>>, pc |-> "constructed"], 0)
    /\ corpus = <<>> /\ rd = <<>> /\ sides = <<>> /\ out = <<>> /\ shard = <<>>
    /\ phase = "idle" /\ err = ""
    /\ cfg = NoCfg /\ ds = NoDataset /\ dyn = NoDyn /\ cc = NoCollapse
    /\ cg = NoCall /\ fld = NoCall

\* __iter__ is entered: dataset_iter is made
StartIter ==
    /\ it # NoCall
    /\ it.op = "DatasetLazyIter"
    /\ it.pc = "constructed"
    /\ it' = [it EXCEPT !.pc = IF it.cur_iter = <<>> THEN "done" ELSE "iterating",
                        !.next = IterStart(it.loaded)]
    /\ UNCHANGED <<corpus, rd, sides, phase, err, out, shard, cfg, ds, dyn, cc, cg, fld>>

\* "for batch in self.cur_iter: yield batch": the consumer gets the batch
\* and what get_cur_dataset() returns while it holds it
YieldBatch ==
    /\ it # NoCall
    /\ it.op = "DatasetLazyIter"
    /\ it.pc = "iterating"
    /\ it.cur_iter[1].pos < it.sizes[it.cur_iter[1].dataset]
    /\ it' = [it EXCEPT
                !.cur_iter[1].pos = @ + 1,
                !.yielded = Append(@, [dataset |-> it.cur_iter[1].dataset,
                                       batch |-> it.cur_iter[1].pos + 1,
                                       cur |-> it.cur_dataset])]
    /\ UNCHANGED <<corpus, rd, sides, phase, err, out, shard, cfg, ds, dyn, cc, cg, fld>>

\* the iterator of the current dataset is exhausted:
\* self.cur_iter = self._next_dataset_iterator(dataset_iter)
NextDataset ==
    /\ it # NoCall
    /\ it.op = "DatasetLazyIter"
    /\ it.pc = "iterating"
    /\ it.cur_iter[1].pos >= it.sizes[it.cur_iter[1].dataset]
    /\ LET i == next_dataset_iterator(it, it.next)
       IN  it' = [i EXCEPT !.pc = IF i.cur_iter = <<>> THEN "done" ELSE "iterating"]
    /\ UNCHANGED <<corpus, rd, sides, phase, err, out, shard, cfg, ds, dyn, cc, cg, fld>>

NextLazyIter == StartIter \/ YieldBatch \/ NextDataset

SpecLazyIter == InitLazyIter /\ [][NextLazyIter]_vars

-----------------------------------------------------------------------------
(* Properties of DatasetLazyIter *)

LazyIter == it # NoCall /\ it.op = "DatasetLazyIter"

\* all batches of the first dataset, then all of the second, and so on
BatchesInOrder(sizes) ==
    Flat([d \in DOMAIN sizes |->
            [k \in 1..sizes[d] |-> [dataset |-> d, batch |-> k]]])

\* C26: iterating a DatasetLazyIter over a lazy sequence of n datasets
\* yields all batches of the first dataset, then all of the second, and so
\* on, each dataset once (the one the constructor took included); whenever
\* a batch is yielded, get_cur_dataset() is the dataset the batch is from.
C26_DatasetsInOrder ==
    LazyIter =>
        LET all == BatchesInOrder(it.sizes)
        IN  /\ Len(it.yielded) <= Len(all)
            /\ \A k \in DOMAIN it.yielded :
                  /\ it.yielded[k].dataset = all[k].dataset
                  /\ it.yielded[k].batch = all[k].batch
                  /\ it.yielded[k].cur = it.yielded[k].dataset
            /\ it.pc = "done" => Len(it.yielded) = Len(all)

\* three datasets of two, no and one batch have been iterated to the end
C26_Witness ==
    /\ LazyIter
    /\ it.pc = "done"
    /\ it.sizes = <<2, 0, 1>>
    /\ Len(it.yielded) = 3
    /\ it.yielded[3] = [dataset |-> 3, batch |-> 1, cur |-> 3]
    /\ it.cur_dataset = 3

-----------------------------------------------------------------------------
(* make_dataset_iter.batch_size_fn and its globals (train.py)               *)
(*                                                                          *)
(* An example is the function from its attributes to the lengths of their   *)
(* values.  The calls are those of the batching loop: count is the length   *)
(* of the minibatch, 1 for the first example of a minibatch.                *)

\* Bounds of the minibatches and of the examples
MaxCount == 3
MaxExampleLen == 2

\* the examples a TextDataset holds (attributes src1, tgt1, src2, tgt2) and
\* examples with the attributes src and tgt
DatasetExamples ==
    {[a \in {"src1", "tgt1", "src2", "tgt2"} |->
         IF a \in {"src1", "src2"} THEN s ELSE t] :
        s \in 0..MaxExampleLen, t \in 0..MaxExampleLen}

SrcTgtExamples ==
    {[a \in {"src", "tgt"} |-> IF a = "src" THEN s ELSE t] :
        s \in 0..MaxExampleLen, t \in 0..MaxExampleLen}

\* what a call returns or raises
FnResult(raised, value) == [raised |-> raised, value |-> value]

\* batch_size_fn(new, count, sofar): the globals afterwards and the result
batch_size_fn(g, new, count) ==
    LET g1 == IF count = 1
              THEN [defined |-> TRUE, max_src_in_batch |-> 0, max_tgt_in_batch |-> 0]
              ELSE g
    IN  IF ~g1.defined
        THEN [g |-> g1, res |-> FnResult("NameError: max_src_in_batch", 0)]
        ELSE IF "src" \notin DOMAIN new
        THEN [g |-> g1, res |-> FnResult("AttributeError: src", 0)]
        ELSE LET g2 == [g1 EXCEPT !.max_src_in_batch =
                                     MaxOf({g1.max_src_in_batch, new["src"] + 2})]
             IN  IF "tgt" \notin DOMAIN new
                 THEN [g |-> g2, res |-> FnResult("AttributeError: tgt", 0)]
                 ELSE LET g3 == [g2 EXCEPT !.max_tgt_in_batch =
                                     MaxOf({g2.max_tgt_in_batch, new["tgt"] + 1})]
                      IN  [g |-> g3,
                           res |-> FnResult("", MaxOf({count * g3.max_src_in_batch,
                                                       count * g3.max_tgt_in_batch}))]

\* the module before the first call: the globals are not defined
InitBatchSizeFn ==
    /\ it = [op |-> "batch_size_fn",
             g |-> [defined |-> FALSE, max_src_in_batch |-> 0, max_tgt_in_batch |-> 0],
             count |-> 0, since |-> <<>>, res |-> FnResult("", 0)]
    /\ corpus = <<>> /\ rd = <<>> /\ sides = <<>> /\ out = <<>> /\ shard = <<>>
    /\ phase = "idle" /\ err = ""
    /\ cfg = NoCfg /\ ds = NoDataset /\ dyn = NoDyn /\ cc = NoCollapse
    /\ cg = NoCall /\ fld = NoCall

\* the batching loop adds an example to the minibatch, or to a new one, and
\* calls batch_size_fn(new, len(minibatch), size_so_far)
CallBatchSizeFn ==
    /\ it # NoCall
    /\ it.op = "batch_size_fn"
    /\ it.res.raised = ""
    /\ \E new \in DatasetExamples \cup SrcTgtExamples,
          count \in {1, it.count + 1} \cap (1..MaxCount) :
          LET r == batch_size_fn(it.g, new, count)
          IN  it' = [it EXCEPT !.g = r.g, !.count = count, !.res = r.res,
                               !.since = IF count = 1 THEN <<new>>
                                                      ELSE Append(@, new)]
    /\ UNCHANGED <<corpus, rd, sides, phase, err, out, shard, cfg, ds, dyn, cc, cg, fld>>

NextBatchSizeFn == CallBatchSizeFn

SpecBatchSizeFn == InitBatchSizeFn /\ [][NextBatchSizeFn]_vars

-----------------------------------------------------------------------------
(* Properties of batch_size_fn *)

FnCalled == it # NoCall /\ it.op = "batch_size_fn" /\ it.count > 0

\* the length of the source and of the target of an example
SourceLen(e) == IF "src" \in DOMAIN e THEN e["src"] ELSE e["src1"]

TargetLen(e) == IF "tgt" \in DOMAIN e THEN e["tgt"] ELSE e["tgt1"]

\* count times the largest of source length + 2 and target length + 1 over
\* the examples added since the last call with count = 1
TokensOfBatch ==
    it.count * MaxOf(UNION {{SourceLen(it.since[k]) + 2,
                             TargetLen(it.since[k]) + 1} : k \in DOMAIN it.since})

\* C30: every call with count = c returns c times the maximum, over the c
\* examples added since the last call with count = 1, of
\* max(source length + 2, target length + 1); nothing of an earlier batch
\* enters the value.
C30_TokensOfCurrentBatch ==
    FnCalled =>
        /\ Len(it.since) = it.count
        /\ it.res.raised = ""
        /\ it.res.value = TokensOfBatch

\* the same for calls whose examples all have the attributes src and tgt:
\* there the value is as C30 says
C30_WithSrcAndTgt ==
    (FnCalled /\ \A k \in DOMAIN it.since : it.since[k] \in SrcTgtExamples) =>
        /\ Len(it.since) = it.count
        /\ it.res.raised = ""
        /\ it.res.value = TokensOfBatch

\* on an example of a TextDataset the call raises
C30_DatasetExampleRaises ==
    (FnCalled /\ it.since[Len(it.since)] \in DatasetExamples) =>
        it.res.raised = "AttributeError: src"

-----------------------------------------------------------------------------
(* Properties of the passes of a standalone reader *)

\* C27: for a standalone reader with shard_size > 0 over a non-empty
\* corpus, every pass that starts while the end-of-file flag is unset
\* yields at least one record: no pass ends with an empty shard.
C27_NoEmptyShard ==
    (/\ sides = <<"src1">>
     /\ rd["src1"].shard_size > 0
     /\ Len(corpus["src1"].lines) > 0
     /\ phase \in {"idle", "done"}
     /\ rd["src1"].gen = "done") => shard # <<>>

-----------------------------------------------------------------------------
(* Properties of the pointer tables of a dataset *)

\* the two length conditions of filter_pred
LengthsWithin(e) ==
    /\ 0 < Len(e.src1) /\ Len(e.src1) <= cfg.src_seq_length
    /\ 0 < Len(e.tgt1) /\ Len(e.tgt1) <= cfg.tgt_seq_length

\* C28: when a pointer file is supplied and the dynamic dictionary is built,
\* the pointer table of every assembled example has at least two rows, also
\* when the example's pointer line is empty, so the row-count condition of
\* the filter is true of every example: the filter keeps exactly the
\* examples whose src1 and tgt1 lengths are within the limits.
C28_PointerRows ==
    (ds # NoDataset /\ UsesDynamicDict /\ cfg.pointers.given) =>
        /\ \A k \in 1..Len(ds.out_examples) :
              /\ "ptrs" \in DOMAIN ds.out_examples[k]
              /\ Len(ds.out_examples[k].ptrs) >= 2
              /\ 1 < Len(ds.out_examples[k].ptrs)
        /\ (ds.built /\ cfg.use_filter_pred) =>
              ds.examples = SelectSeq(ds.out_examples, LengthsWithin)

\* a filtered dataset read from whole files that kept an example whose
\* pointer line is empty: its table is the two length rows
C28_Witness ==
    /\ ds # NoDataset /\ ds.built /\ UsesDynamicDict
    /\ cfg.pointers.given /\ cfg.use_filter_pred /\ cfg.reading = "file"
    /\ \E k \in 1..Len(ds.examples) :
          /\ cfg.pointers.lines[ds.examples[k].indices + 1] = <<>>
          /\ ds.examples[k].ptrs = << <<3>>, <<1>> >>

====
